---- MODULE Spec2Model ----
(***************************************************************************)
(* A model of the NiFi flow-definition parser (NiFi-flow.json-parser.py)   *)
(* and of the diagnostic analyzer (diagnostics/nifi_diag.py).              *)
(*                                                                         *)
(* Python strings are sequences of character codes (ASCII, 0..127), so     *)
(* that cleaning, case folding and substring tests are computed as the     *)
(* code computes them.  A parsed JSON value is a record with the fields    *)
(*   t  : "null" | "bool" | "num" | "str" | "list" | "obj"                 *)
(*   s  : the text of a str, the decimal digits of a num, True/False       *)
(*   ks : the keys of an obj, in insertion order                           *)
(*   vs : the values of an obj (aligned with ks) or the items of a list    *)
(* A Python call that may raise returns [err, val]: err = "" when it       *)
(* returned val, or the name of the exception it raised.                   *)
(***************************************************************************)
EXTENDS Integers, Sequences, FiniteSets, TLC

VARIABLES
    flow_data,    \* NiFiFlowParser.flow_data: the loaded document, or JNull
    processors,   \* NiFiFlowParser.processors: the records of the last parse_flow
    pc,           \* position of main()
    detected,     \* the format message parse_flow printed last
    ret,          \* outcome [err, val] of the last parse_flow call
    arg,          \* arguments of the function applied by a unit specification
    res           \* its outcome, NoRes before the call

vars == <<flow_data, processors, pc, detected, ret, arg, res>>

\* ------------------------------------------------------------------------
\* String literals of the source
\* ------------------------------------------------------------------------
K_state == <<115, 116, 97, 116, 101>>  \* 'state'
K_component == <<99, 111, 109, 112, 111, 110, 101, 110, 116>>  \* 'component'
K_config == <<99, 111, 110, 102, 105, 103>>  \* 'config'
K_schedulingStrategy == <<115, 99, 104, 101, 100, 117, 108, 105, 110, 103, 83, 116, 114, 97, 116, 101, 103, 121>>  \* 'schedulingStrategy'
K_status == <<115, 116, 97, 116, 117, 115>>  \* 'status'
K_runStatus == <<114, 117, 110, 83, 116, 97, 116, 117, 115>>  \* 'runStatus'
K_aggregateSnapshot == <<97, 103, 103, 114, 101, 103, 97, 116, 101, 83, 110, 97, 112, 115, 104, 111, 116>>  \* 'aggregateSnapshot'
K_identifier == <<105, 100, 101, 110, 116, 105, 102, 105, 101, 114>>  \* 'identifier'
K_id == <<105, 100>>  \* 'id'
K_name == <<110, 97, 109, 101>>  \* 'name'
K_type == <<116, 121, 112, 101>>  \* 'type'
K_class == <<99, 108, 97, 115, 115>>  \* 'class'
K_concurrentlySchedulableTaskCount == <<99, 111, 110, 99, 117, 114, 114, 101, 110, 116, 108, 121, 83, 99, 104, 101, 100, 117, 108, 97, 98, 108, 101, 84, 97, 115, 107, 67, 111, 117, 110, 116>>  \* 'concurrentlySchedulableTaskCount'
K_maxConcurrentTasks == <<109, 97, 120, 67, 111, 110, 99, 117, 114, 114, 101, 110, 116, 84, 97, 115, 107, 115>>  \* 'maxConcurrentTasks'
K_schedulingPeriod == <<115, 99, 104, 101, 100, 117, 108, 105, 110, 103, 80, 101, 114, 105, 111, 100>>  \* 'schedulingPeriod'
K_runSchedule == <<114, 117, 110, 83, 99, 104, 101, 100, 117, 108, 101>>  \* 'runSchedule'
K_penaltyDuration == <<112, 101, 110, 97, 108, 116, 121, 68, 117, 114, 97, 116, 105, 111, 110>>  \* 'penaltyDuration'
K_yieldDuration == <<121, 105, 101, 108, 100, 68, 117, 114, 97, 116, 105, 111, 110>>  \* 'yieldDuration'
K_bulletinLevel == <<98, 117, 108, 108, 101, 116, 105, 110, 76, 101, 118, 101, 108>>  \* 'bulletinLevel'
K_autoTerminatedRelationships == <<97, 117, 116, 111, 84, 101, 114, 109, 105, 110, 97, 116, 101, 100, 82, 101, 108, 97, 116, 105, 111, 110, 115, 104, 105, 112, 115>>  \* 'autoTerminatedRelationships'
K_properties == <<112, 114, 111, 112, 101, 114, 116, 105, 101, 115>>  \* 'properties'
K_relationships == <<114, 101, 108, 97, 116, 105, 111, 110, 115, 104, 105, 112, 115>>  \* 'relationships'
K_description == <<100, 101, 115, 99, 114, 105, 112, 116, 105, 111, 110>>  \* 'description'
K_autoTerminate == <<97, 117, 116, 111, 84, 101, 114, 109, 105, 110, 97, 116, 101>>  \* 'autoTerminate'
K_processors == <<112, 114, 111, 99, 101, 115, 115, 111, 114, 115>>  \* 'processors'
K_processGroups == <<112, 114, 111, 99, 101, 115, 115, 71, 114, 111, 117, 112, 115>>  \* 'processGroups'
K_flowContents == <<102, 108, 111, 119, 67, 111, 110, 116, 101, 110, 116, 115>>  \* 'flowContents'
K_processGroupFlow == <<112, 114, 111, 99, 101, 115, 115, 71, 114, 111, 117, 112, 70, 108, 111, 119>>  \* 'processGroupFlow'
K_versionedFlowSnapshot == <<118, 101, 114, 115, 105, 111, 110, 101, 100, 70, 108, 111, 119, 83, 110, 97, 112, 115, 104, 111, 116>>  \* 'versionedFlowSnapshot'
K_flow == <<102, 108, 111, 119>>  \* 'flow'
S_UNKNOWN == <<85, 78, 75, 78, 79, 87, 78>>  \* 'UNKNOWN'
S_DISABLED == <<68, 73, 83, 65, 66, 76, 69, 68>>  \* 'DISABLED'
S_RUNNING == <<82, 85, 78, 78, 73, 78, 71>>  \* 'RUNNING'
S_RUN == <<82, 85, 78>>  \* 'RUN'
S_STARTED == <<83, 84, 65, 82, 84, 69, 68>>  \* 'STARTED'
S_START == <<83, 84, 65, 82, 84>>  \* 'START'
S_STOPPED == <<83, 84, 79, 80, 80, 69, 68>>  \* 'STOPPED'
S_STOP == <<83, 84, 79, 80>>  \* 'STOP'
S_INVALID == <<73, 78, 86, 65, 76, 73, 68>>  \* 'INVALID'
S_VALIDATING == <<86, 65, 76, 73, 68, 65, 84, 73, 78, 71>>  \* 'VALIDATING'
S_VALID == <<86, 65, 76, 73, 68>>  \* 'VALID'
S_Unknown == <<85, 110, 107, 110, 111, 119, 110>>  \* 'Unknown'
S_UnnamedProcessor == <<85, 110, 110, 97, 109, 101, 100, 32, 80, 114, 111, 99, 101, 115, 115, 111, 114>>  \* 'Unnamed Processor'
S_UnknownType == <<85, 110, 107, 110, 111, 119, 110, 32, 84, 121, 112, 101>>  \* 'Unknown Type'
S_UnnamedGroup == <<85, 110, 110, 97, 109, 101, 100, 32, 71, 114, 111, 117, 112>>  \* 'Unnamed Group'
S_Root == <<82, 111, 111, 116>>  \* 'Root'
S_root == <<114, 111, 111, 116>>  \* 'root'
S_NoDescription == <<78, 111, 32, 100, 101, 115, 99, 114, 105, 112, 116, 105, 111, 110>>  \* 'No description'
S_SENSITIVE == <<42, 42, 42, 83, 69, 78, 83, 73, 84, 73, 86, 69, 42, 42, 42>>  \* '***SENSITIVE***'
S_NotSet == <<78, 111, 116, 32, 83, 101, 116>>  \* 'Not Set'
S_TRUNCATED == <<46, 46, 46, 91, 84, 82, 85, 78, 67, 65, 84, 69, 68, 93>>  \* '...[TRUNCATED]'
S_password == <<112, 97, 115, 115, 119, 111, 114, 100>>  \* 'password'
S_secret == <<115, 101, 99, 114, 101, 116>>  \* 'secret'
S_key == <<107, 101, 121>>  \* 'key'
S_credential == <<99, 114, 101, 100, 101, 110, 116, 105, 97, 108>>  \* 'credential'
S_token == <<116, 111, 107, 101, 110>>  \* 'token'
S_True == <<84, 114, 117, 101>>  \* 'True'
S_False == <<70, 97, 108, 115, 101>>  \* 'False'
S_None == <<78, 111, 110, 101>>  \* 'None'

\* ------------------------------------------------------------------------
\* JSON values and the Python operations the parser applies to them
\* ------------------------------------------------------------------------
JNull == [t |-> "null", s |-> <<>>, ks |-> <<>>, vs |-> <<>>]
JStr(str) == [t |-> "str", s |-> str, ks |-> <<>>, vs |-> <<>>]
JNum(digits) == [t |-> "num", s |-> digits, ks |-> <<>>, vs |-> <<>>]
JBool(b) == [t |-> "bool", s |-> IF b THEN S_True ELSE S_False, ks |-> <<>>, vs |-> <<>>]
JList(items) == [t |-> "list", s |-> <<>>, ks |-> <<>>, vs |-> items]
JObj(keys, values) == [t |-> "obj", s |-> <<>>, ks |-> keys, vs |-> values]
JEmptyObj == JObj(<<>>, <<>>)

Ok(v) == [err |-> "", val |-> v]
Raise(e) == [err |-> e, val |-> <<>>]
NoRes == [err |-> "not called", val |-> <<>>]

\* ------------------------------------------------------------------------
\* Sequencing of calls that may raise
\* ------------------------------------------------------------------------
\* r = call; F(r): the call is evaluated once and its outcome bound to r
Then(call, F(_)) == CHOOSE y \in {F(r) : r \in {call}} : TRUE

\* v = call; F(v): an exception raised by the call propagates, F is not run
Try(call, F(_)) ==
    CHOOSE y \in {IF r.err # "" THEN Raise(r.err) ELSE F(r.val) : r \in {call}} : TRUE

\* bool(v)
Truthy(v) ==
    CASE v.t = "null" -> FALSE
      [] v.t = "bool" -> v.s = S_True
      [] v.t = "num" -> v.s # <<48>>
      [] v.t = "str" -> Len(v.s) > 0
      [] v.t = "list" -> Len(v.vs) > 0
      [] OTHER -> Len(v.ks) > 0

\* sub in str, for two str
Contains(sub, str) ==
    Then(str, LAMBDA s :
        \E i \in 1..(Len(s) - Len(sub) + 1) : SubSeq(s, i, i + Len(sub) - 1) = sub)

HasKey(d, k) == \E i \in 1..Len(d.ks) : d.ks[i] = k

Lookup(d, k) == d.vs[CHOOSE i \in 1..Len(d.ks) : d.ks[i] = k]

\* k in c: a key of a dict, an item of a list, a substring of a str;
\* TypeError ("argument of type ... is not iterable") for None, a number, a bool
PyIn(k, c) ==
    CASE c.t = "obj" -> Ok(HasKey(c, k))
      [] c.t = "list" -> Ok(\E i \in 1..Len(c.vs) : c.vs[i].t = "str" /\ c.vs[i].s = k)
      [] c.t = "str" -> Ok(Contains(k, c.s))
      [] OTHER -> Raise("TypeError")

\* c[k] with a str k: KeyError on a dict without k, TypeError on anything else
PyIndex(c, k) ==
    IF c.t = "obj"
    THEN IF HasKey(c, k) THEN Ok(Lookup(c, k)) ELSE Raise("KeyError")
    ELSE Raise("TypeError")

\* d.get(k, default) on a dict d
Get(d, k, default) == IF HasKey(d, k) THEN Lookup(d, k) ELSE default

\* c.get(k, default): AttributeError when c is no dict
PyGet(c, k, default) ==
    IF c.t = "obj" THEN Ok(Get(c, k, default)) ELSE Raise("AttributeError")

RECURSIVE Join(_, _)
\* sep.join(parts)
Join(parts, sep) ==
    IF Len(parts) = 0 THEN <<>>
    ELSE IF Len(parts) = 1 THEN parts[1]
    ELSE parts[1] \o sep \o Join(Tail(parts), sep)

\* repr(v) of an item of a container: a str is put between ' (the strings the
\* model puts inside a container hold no quote, backslash or control
\* character, which repr escapes); a container inside a container is abridged
\* to its brackets, no input of the model has one where its text is read
ItemRepr(v) ==
    CASE v.t = "null" -> S_None
      [] v.t \in {"bool", "num"} -> v.s
      [] v.t = "str" -> <<39>> \o v.s \o <<39>>
      [] v.t = "list" -> IF Len(v.vs) = 0 THEN <<91, 93>> ELSE <<91, 46, 46, 46, 93>>
      [] OTHER -> IF Len(v.ks) = 0 THEN <<123, 125>> ELSE <<123, 46, 46, 46, 125>>

\* repr(v)
PyRepr(v) ==
    CASE v.t = "list" ->
            <<91>> \o Join([i \in 1..Len(v.vs) |-> ItemRepr(v.vs[i])], <<44, 32>>) \o <<93>>
      [] v.t = "obj" ->
            <<123>> \o Join([i \in 1..Len(v.ks) |->
                              <<39>> \o v.ks[i] \o <<39, 58, 32>> \o ItemRepr(v.vs[i])],
                            <<44, 32>>) \o <<125>>
      [] OTHER -> ItemRepr(v)

\* str(v)
PyStr(v) == IF v.t = "str" THEN v.s ELSE PyRepr(v)

\* str.upper() and str.lower() on ASCII
Upper(str) ==
    Then(str, LAMBDA s : [i \in 1..Len(s) |-> IF s[i] \in 97..122 THEN s[i] - 32 ELSE s[i]])
Lower(str) ==
    Then(str, LAMBDA s : [i \in 1..Len(s) |-> IF s[i] \in 65..90 THEN s[i] + 32 ELSE s[i]])

\* ------------------------------------------------------------------------
\* clean_data, clean_property_value, clean_sensitive_property
\* ------------------------------------------------------------------------
\* the class [\x00-\x08\x0B-\x1F\x7F]
ControlChars == (0..8) \cup (11..31) \cup {127}
\* the class [\r\n]
NewlineChars == {10, 13}
\* \s of a str pattern, and str.isspace, within ASCII
WhitespaceChars == {9, 10, 11, 12, 13, 28, 29, 30, 31, 32}

RemoveChars(s, class) == SelectSeq(s, LAMBDA c : c \notin class)

\* re.sub(r'[class]+', ' ', s): of each maximal run of class characters only
\* the last is kept, as a space
CollapseRuns(s, class) ==
    Then(SelectSeq([i \in 1..Len(s) |-> i],
                   LAMBDA i : s[i] \notin class \/ i = Len(s) \/ s[i + 1] \notin class),
         LAMBDA kept : [j \in 1..Len(kept) |->
                            IF s[kept[j]] \in class THEN 32 ELSE s[kept[j]]])

\* s.strip()
Strip(s) ==
    Then({i \in 1..Len(s) : s[i] \notin WhitespaceChars}, LAMBDA inner :
        IF inner = {} THEN <<>>
        ELSE SubSeq(s, CHOOSE i \in inner : \A j \in inner : i <= j,
                       CHOOSE i \in inner : \A j \in inner : i >= j))

\* clean_data stripping the ends before the control characters are removed
clean_data_StripFirst(value) ==
    IF value.t = "null" THEN <<>>
    ELSE Then(Strip(PyStr(value)), LAMBDA s1 :
         Then(RemoveChars(s1, ControlChars), LAMBDA s2 :
         Then(CollapseRuns(s2, NewlineChars), LAMBDA s3 :
              CollapseRuns(s3, WhitespaceChars))))

clean_data(value) ==
    IF value.t = "null" THEN <<>>
    ELSE Then(RemoveChars(PyStr(value), ControlChars), LAMBDA s1 :
         Then(CollapseRuns(s1, NewlineChars), LAMBDA s2 :
         Then(CollapseRuns(s2, WhitespaceChars), LAMBDA s3 :
         Then(Strip(s3), LAMBDA s4 :
              RemoveChars(s4, {0})))))

DefaultMaxLength == 1000

RECURSIVE EscapeFrom(_, _)
\* the characters of s from the i-th on, each " doubled (the first half of
\* them, then the second half)
EscapeFrom(s, i) ==
    IF i > Len(s) THEN <<>>
    ELSE IF i = Len(s) THEN (IF s[i] = 34 THEN <<34, 34>> ELSE <<s[i]>>)
    ELSE EscapeFrom(SubSeq(s, 1, (i + Len(s)) \div 2), i)
         \o EscapeFrom(s, (i + Len(s)) \div 2 + 1)

\* cleaned.replace('"', '""')
EscapeQuotes(s) == EscapeFrom(s, 1)

\* clean_property_value doubling the quotes before the length is tested and cut
clean_property_value_EscapeFirst(value, max_length) ==
    Then(EscapeQuotes(clean_data(value)), LAMBDA escaped :
         IF Len(escaped) > max_length
         THEN SubSeq(escaped, 1, max_length) \o S_TRUNCATED
         ELSE escaped)

clean_property_value(value, max_length) ==
    Then(clean_data(value), LAMBDA cleaned :
         EscapeQuotes(IF Len(cleaned) > max_length
                      THEN SubSeq(cleaned, 1, max_length) \o S_TRUNCATED
                      ELSE cleaned))

SensitiveWords == <<S_password, S_secret, S_key, S_credential, S_token>>

IsSensitiveName(prop_name) ==
    \E i \in 1..Len(SensitiveWords) : Contains(SensitiveWords[i], Lower(prop_name))

\* clean_sensitive_property matching the name without lower()
clean_sensitive_property_CaseSensitive(prop_name, prop_value) ==
    IF \E i \in 1..Len(SensitiveWords) : Contains(SensitiveWords[i], prop_name)
    THEN IF Truthy(prop_value) THEN S_SENSITIVE ELSE S_NotSet
    ELSE clean_property_value(prop_value, DefaultMaxLength)

clean_sensitive_property(prop_name, prop_value) ==
    IF IsSensitiveName(prop_name)
    THEN IF Truthy(prop_value) THEN S_SENSITIVE ELSE S_NotSet
    ELSE clean_property_value(prop_value, DefaultMaxLength)

\* ------------------------------------------------------------------------
\* get_processor_state
\* ------------------------------------------------------------------------
\* lines 200-203: the scheduling strategy of the component's config
StateFromComponentConfig(component) ==
    Try(PyIndex(component, K_config), LAMBDA config :
    Try(PyIn(K_schedulingStrategy, config), LAMBDA inStrategy :
        IF ~inStrategy THEN Ok(JStr(S_UNKNOWN))
        ELSE Try(PyGet(config, K_schedulingStrategy, JNull), LAMBDA strategy :
                 Ok(IF strategy = JStr(S_DISABLED) THEN JStr(S_DISABLED)
                                                   ELSE JStr(S_UNKNOWN)))))

\* Method 2: the component wrapper
StateFromComponent(processor) ==
    Try(PyIndex(processor, K_component), LAMBDA component :
    Try(PyIn(K_state, component), LAMBDA inState :
        IF inState THEN PyIndex(component, K_state)
        ELSE Try(PyIn(K_config, component), LAMBDA inConfig :
                 IF inConfig THEN StateFromComponentConfig(component)
                             ELSE Ok(JStr(S_UNKNOWN)))))

\* Method 3: the status field.  The default of the outer get is an argument,
\* so Python evaluates the aggregateSnapshot lookup whether or not runStatus
\* is present.
StateFromStatus(processor) ==
    Try(PyIndex(processor, K_status), LAMBDA status :
        IF status.t = "obj"
        THEN Try(PyGet(Get(status, K_aggregateSnapshot, JEmptyObj), K_runStatus, JStr(S_UNKNOWN)),
                 LAMBDA inner : Ok(Get(status, K_runStatus, inner)))
        ELSE Ok(JStr(PyStr(status))))

\* nested_paths with the record's own schedulingStrategy as one more path
nested_paths_WithOwnStrategy ==
    << <<K_status, K_runStatus>>,
       <<K_status, K_aggregateSnapshot, K_runStatus>>,
       <<K_component, K_status, K_runStatus>>,
       <<K_component, K_runStatus>>,
       <<K_config, K_schedulingStrategy>>,
       <<K_schedulingStrategy>> >>

nested_paths ==
    << <<K_status, K_runStatus>>,
       <<K_status, K_aggregateSnapshot, K_runStatus>>,
       <<K_component, K_status, K_runStatus>>,
       <<K_component, K_runStatus>>,
       <<K_config, K_schedulingStrategy>> >>

RECURSIVE WalkPath(_, _)
\* for key in path: current = current[key]
WalkPath(current, path) ==
    IF Len(path) = 0 THEN Ok(current)
    ELSE Try(PyIndex(current, Head(path)), LAMBDA next : WalkPath(next, Tail(path)))

RECURSIVE StateFromNestedPaths(_, _)
\* Method 5: the first path, from the i-th on, that resolves to a truthy
\* value; KeyError and TypeError are caught
StateFromNestedPaths(processor, i) ==
    IF i > Len(nested_paths) THEN JStr(S_UNKNOWN)
    ELSE Then(WalkPath(processor, nested_paths[i]), LAMBDA current :
              IF current.err = "" /\ Truthy(current.val)
              THEN current.val
              ELSE StateFromNestedPaths(processor, i + 1))

\* SelectState with the status field consulted before the direct state field
SelectState_StatusFirst(processor) ==
    Try(PyIn(K_status, processor), LAMBDA inStatus :
        IF inStatus THEN StateFromStatus(processor)
        ELSE IF PyIn(K_state, processor).val THEN PyIndex(processor, K_state)
        ELSE IF PyIn(K_component, processor).val THEN StateFromComponent(processor)
        ELSE IF PyIn(K_runStatus, processor).val THEN PyIndex(processor, K_runStatus)
        ELSE Ok(StateFromNestedPaths(processor, 1)))

\* the if/elif chain of lines 192-237: the raw state, before normalisation
SelectState(processor) ==
    Try(PyIn(K_state, processor), LAMBDA inState :
        IF inState THEN PyIndex(processor, K_state)
        ELSE IF PyIn(K_component, processor).val THEN StateFromComponent(processor)
        ELSE IF PyIn(K_status, processor).val THEN StateFromStatus(processor)
        ELSE IF PyIn(K_runStatus, processor).val THEN PyIndex(processor, K_runStatus)
        ELSE Ok(StateFromNestedPaths(processor, 1)))

state_mapping(state) ==
    CASE state \in {S_RUNNING, S_RUN, S_STARTED, S_START} -> S_RUNNING
      [] state \in {S_STOPPED, S_STOP} -> S_STOPPED
      [] state \in {S_DISABLED, S_INVALID} -> S_DISABLED
      [] state \in {S_VALIDATING, S_VALID} -> S_STOPPED
      [] OTHER -> state

\* lines 239-259
NormalizeState(state) ==
    IF state.t = "str"
    THEN Then(Upper(clean_data(state)), LAMBDA upper : state_mapping(upper))
    ELSE S_UNKNOWN

get_processor_state(processor) ==
    Try(SelectState(processor), LAMBDA state : Ok(NormalizeState(state)))

\* ------------------------------------------------------------------------
\* parse_processor
\* ------------------------------------------------------------------------
\* for x in v: the items of a list, the characters of a str, the keys of a
\* dict; TypeError for None, a number, a bool
PyIter(v) ==
    CASE v.t = "list" -> Ok(v.vs)
      [] v.t = "str" -> Ok([i \in 1..Len(v.s) |-> JStr(<<v.s[i]>>)])
      [] v.t = "obj" -> Ok([i \in 1..Len(v.ks) |-> JStr(v.ks[i])])
      [] OTHER -> Raise("TypeError")

\* v.items(): the (key, value) pairs of a dict, AttributeError otherwise
PyItems(v) ==
    IF v.t = "obj" THEN Ok([i \in 1..Len(v.ks) |-> <<v.ks[i], v.vs[i]>>])
    ELSE Raise("AttributeError")

\* d[k] = v on an insertion-ordered dict held as a sequence of <<key, value>>
DictSet(d, k, v) ==
    IF \E i \in 1..Len(d) : d[i][1] = k
    THEN [i \in 1..Len(d) |-> IF d[i][1] = k THEN <<k, v>> ELSE d[i]]
    ELSE Append(d, <<k, v>>)

RECURSIVE CleanProperties(_, _)
\* the loops of lines 135-138, 141-144 and 178-181 over items, into dict d
CleanProperties(items, d) ==
    IF Len(items) = 0 THEN d
    ELSE CleanProperties(Tail(items),
            DictSet(d, clean_data(JStr(Head(items)[1])),
                    clean_property_value(Head(items)[2], DefaultMaxLength)))

\* the properties dict built from value.items()
PropertiesOf(value) ==
    Try(PyItems(value), LAMBDA items : Ok(CleanProperties(items, <<>>)))

CleanAll(items) == [i \in 1..Len(items) |-> clean_data(items[i])]

\* clean_data(d.get(k1, d.get(k2, default)))
CleanField2(d, k1, k2, default) == clean_data(Get(d, k1, Get(d, k2, JStr(default))))

\* clean_data(d.get(k, default))
CleanField(d, k, default) == clean_data(Get(d, k, JStr(default)))

\* lines 115-130: the fields read from the record itself (a dict)
BaseInfo(processor, group_name, processor_state) ==
    Try(PyIter(Get(processor, K_autoTerminatedRelationships, JList(<<>>))), LAMBDA rels :
        Ok([id |-> CleanField2(processor, K_identifier, K_id, S_Unknown),
            name |-> CleanField(processor, K_name, S_UnnamedProcessor),
            type |-> CleanField2(processor, K_type, K_class, S_UnknownType),
            group |-> clean_data(group_name),
            state |-> processor_state,
            scheduling_strategy |-> CleanField(processor, K_schedulingStrategy, S_Unknown),
            concurrent_tasks |-> Get(processor, K_concurrentlySchedulableTaskCount,
                                     Get(processor, K_maxConcurrentTasks, JNum(<<49>>))),
            scheduling_period |-> CleanField2(processor, K_schedulingPeriod, K_runSchedule, S_Unknown),
            penalty_duration |-> CleanField(processor, K_penaltyDuration, S_Unknown),
            yield_duration |-> CleanField(processor, K_yieldDuration, S_Unknown),
            bulletin_level |-> CleanField(processor, K_bulletinLevel, S_Unknown),
            auto_terminated_relationships |-> CleanAll(rels),
            properties |-> <<>>,
            relationships |-> <<>>]))

\* lines 132-144: the properties of the record, or of its config
ExtractProperties(processor) ==
    IF HasKey(processor, K_properties) /\ Truthy(Lookup(processor, K_properties))
    THEN PropertiesOf(Lookup(processor, K_properties))
    ELSE IF ~HasKey(processor, K_config) THEN Ok(<<>>)
    ELSE Try(PyIn(K_properties, Lookup(processor, K_config)), LAMBDA inConfig :
             IF ~inConfig THEN Ok(<<>>)
             ELSE Try(PyIndex(Lookup(processor, K_config), K_properties), LAMBDA props :
                      PropertiesOf(props)))

\* lines 148-155: one entry per relationship
RelationshipInfo(rel) ==
    Try(PyGet(rel, K_name, JStr(S_Unknown)), LAMBDA name :
        Ok([name |-> clean_data(name),
            description |-> CleanField(rel, K_description, S_NoDescription),
            autoTerminate |-> Get(rel, K_autoTerminate, JBool(FALSE))]))

RECURSIVE RelationshipInfos(_)
RelationshipInfos(rels) ==
    IF Len(rels) = 0 THEN Ok(<<>>)
    ELSE Try(RelationshipInfo(Head(rels)), LAMBDA first :
         Try(RelationshipInfos(Tail(rels)), LAMBDA rest : Ok(<<first>> \o rest)))

\* lines 146-155
ExtractRelationships(processor) ==
    IF ~HasKey(processor, K_relationships) THEN Ok(<<>>)
    ELSE Try(PyIter(Lookup(processor, K_relationships)), LAMBDA rels : RelationshipInfos(rels))

\* lines 165-182: the config of the component wrapper overrides info
ApplyComponentConfig(config, info) ==
    IF config.t # "obj" THEN Raise("AttributeError")
    ELSE Try(PyIter(Get(config, K_autoTerminatedRelationships,
                        JList([i \in 1..Len(info.auto_terminated_relationships) |->
                                JStr(info.auto_terminated_relationships[i])]))), LAMBDA rels :
         Try(IF HasKey(config, K_properties) THEN PropertiesOf(Lookup(config, K_properties))
                                             ELSE Ok(info.properties), LAMBDA props :
             Ok([info EXCEPT
                 !.concurrent_tasks = Get(config, K_concurrentlySchedulableTaskCount, @),
                 !.scheduling_period = clean_data(Get(config, K_schedulingPeriod, JStr(@))),
                 !.penalty_duration = clean_data(Get(config, K_penaltyDuration, JStr(@))),
                 !.yield_duration = clean_data(Get(config, K_yieldDuration, JStr(@))),
                 !.bulletin_level = clean_data(Get(config, K_bulletinLevel, JStr(@))),
                 !.auto_terminated_relationships = CleanAll(rels),
                 !.properties = props])))

\* lines 157-182: the component wrapper overrides info
ApplyComponent(processor, info) ==
    IF ~HasKey(processor, K_component) THEN Ok(info)
    ELSE Then(Lookup(processor, K_component), LAMBDA component :
         IF component.t # "obj" THEN Raise("AttributeError")
         ELSE Then([info EXCEPT
                       !.id = clean_data(Get(component, K_id, JStr(@))),
                       !.name = clean_data(Get(component, K_name, JStr(@))),
                       !.type = clean_data(Get(component, K_type, JStr(@)))], LAMBDA named :
              IF HasKey(component, K_config)
              THEN ApplyComponentConfig(Lookup(component, K_config), named)
              ELSE Ok(named)))

\* processor.get on a record that is no dict raises AttributeError
parse_processor(processor, group_name) ==
    Try(get_processor_state(processor), LAMBDA processor_state :
        IF processor.t # "obj" THEN Raise("AttributeError")
        ELSE Try(BaseInfo(processor, group_name, processor_state), LAMBDA base :
             Try(ExtractProperties(processor), LAMBDA props :
             Try(ExtractRelationships(processor), LAMBDA rels :
                 ApplyComponent(processor,
                     [base EXCEPT !.properties = props, !.relationships = rels])))))

\* ------------------------------------------------------------------------
\* extract_processors_from_group, find_processors_recursively
\* ------------------------------------------------------------------------
RECURSIVE ParseEach(_, _)
\* the loops of lines 96-98, 303-305 and 351-353: parse_processor on each item
\* in turn, up to the first call that raises
ParseEach(items, group_name) ==
    IF Len(items) = 0 THEN Ok(<<>>)
    ELSE Try(parse_processor(Head(items), group_name), LAMBDA first :
         Try(ParseEach(Tail(items), group_name), LAMBDA rest : Ok(<<first>> \o rest)))

\* lines 103-104
FullGroupName(group_name, child_group_name) ==
    IF group_name # JStr(S_Root)
    THEN JStr(PyStr(group_name) \o <<47>> \o PyStr(child_group_name))
    ELSE child_group_name

RECURSIVE extract_processors_from_group(_, _)
RECURSIVE ExtractChildren(_, _)

RECURSIVE ExtractChildren_LastFirst(_, _)
\* ExtractChildren taking the child groups from the last to the first
ExtractChildren_LastFirst(children, group_name) ==
    IF Len(children) = 0 THEN Ok(<<>>)
    ELSE Try(PyGet(Head(children), K_name, JStr(S_UnnamedGroup)), LAMBDA child_group_name :
         Try(extract_processors_from_group(Head(children),
                 FullGroupName(group_name, child_group_name)), LAMBDA child_processors :
         Try(ExtractChildren_LastFirst(Tail(children), group_name), LAMBDA rest :
             Ok(rest \o child_processors))))

\* lines 102-106: the loop over the child groups
ExtractChildren(children, group_name) ==
    IF Len(children) = 0 THEN Ok(<<>>)
    ELSE Try(PyGet(Head(children), K_name, JStr(S_UnnamedGroup)), LAMBDA child_group_name :
         Try(extract_processors_from_group(Head(children),
                 FullGroupName(group_name, child_group_name)), LAMBDA child_processors :
         Try(ExtractChildren(Tail(children), group_name), LAMBDA rest :
             Ok(child_processors \o rest))))

\* lines 95-98 when key is 'processors', lines 101-102 when it is
\* 'processGroups': the items of process_group[key], none when key is absent
ItemsUnder(process_group, key) ==
    Try(PyIn(key, process_group), LAMBDA present :
        IF ~present THEN Ok(<<>>)
        ELSE Try(PyIndex(process_group, key), LAMBDA value : PyIter(value)))

extract_processors_from_group(process_group, group_name) ==
    Try(ItemsUnder(process_group, K_processors), LAMBDA items :
    Try(ParseEach(items, group_name), LAMBDA own :
    Try(ItemsUnder(process_group, K_processGroups), LAMBDA children :
    Try(ExtractChildren(children, group_name), LAMBDA below :
        Ok(own \o below)))))

RECURSIVE Decimal(_)
\* str(i) of an integer i >= 0
Decimal(i) == IF i < 10 THEN <<48 + i>> ELSE Decimal(i \div 10) \o <<48 + (i % 10)>>

\* the nodes find_processors_recursively descends into from data, each with
\* its path: the values of a dict but the one under 'processors' (lines
\* 308-310), the items of a list (lines 315-316)
ChildNodes(data, path) ==
    CASE data.t = "obj" ->
            LET kept == SelectSeq([i \in 1..Len(data.ks) |-> i],
                                  LAMBDA i : data.ks[i] # K_processors)
            IN [j \in 1..Len(kept) |->
                   <<data.vs[kept[j]], path \o <<46>> \o data.ks[kept[j]]>>]
      [] data.t = "list" ->
            [i \in 1..Len(data.vs) |->
                <<data.vs[i], path \o <<91>> \o Decimal(i - 1) \o <<93>>>>]
      [] OTHER -> <<>>

\* line 301: the list under 'processors' of a dict, if any
DirectProcessors(data) ==
    IF data.t = "obj" /\ HasKey(data, K_processors) /\ Lookup(data, K_processors).t = "list"
    THEN Lookup(data, K_processors).vs
    ELSE <<>>

RECURSIVE find_processors_recursively(_, _)
RECURSIVE FindInEach(_)

\* the loops of lines 308-311 and 315-317 over the child nodes
FindInEach(nodes) ==
    IF Len(nodes) = 0 THEN Ok(<<>>)
    ELSE Try(find_processors_recursively(Head(nodes)[1], Head(nodes)[2]), LAMBDA child_processors :
         Try(FindInEach(Tail(nodes)), LAMBDA rest : Ok(child_processors \o rest)))

find_processors_recursively(data, path) ==
    Try(ParseEach(DirectProcessors(data), JStr(path)), LAMBDA own :
    Try(FindInEach(ChildNodes(data, path)), LAMBDA below :
        Ok(own \o below)))

\* ------------------------------------------------------------------------
\* parse_flow
\* ------------------------------------------------------------------------
\* DetectFormat with the bare 'processors' key tested first
DetectFormat_ProcessorsFirst(data) ==
    CASE PyIn(K_processors, data).val -> "Direct processor list format"
      [] PyIn(K_flowContents, data).val -> "NiFi Template export format"
      [] PyIn(K_processGroupFlow, data).val -> "Process Group export format"
      [] PyIn(K_versionedFlowSnapshot, data).val -> "Registry versioned flow format"
      [] PyIn(K_flow, data).val -> "Flow export format"
      [] OTHER -> "Unknown format"

\* lines 333-355: the branch taken, by the message it prints
DetectFormat(data) ==
    CASE PyIn(K_flowContents, data).val -> "NiFi Template export format"
      [] PyIn(K_processGroupFlow, data).val -> "Process Group export format"
      [] PyIn(K_versionedFlowSnapshot, data).val -> "Registry versioned flow format"
      [] PyIn(K_flow, data).val -> "Flow export format"
      [] PyIn(K_processors, data).val -> "Direct processor list format"
      [] OTHER -> "Unknown format"

\* lines 335, 339, 343, 347: flow_contents of the branch taken
FlowContents(data, format) ==
    CASE format = "NiFi Template export format" -> PyIndex(data, K_flowContents)
      [] format = "Process Group export format" ->
            Try(PyIndex(data, K_processGroupFlow), LAMBDA outer : PyIndex(outer, K_flow))
      [] format = "Registry versioned flow format" ->
            Try(PyIndex(data, K_versionedFlowSnapshot), LAMBDA outer :
                PyIndex(outer, K_flowContents))
      [] OTHER -> PyIndex(data, K_flow)

\* lines 332-356: the records of the branch taken
StructuredParse(data) ==
    Then(DetectFormat(data), LAMBDA format :
        CASE format = "Unknown format" -> find_processors_recursively(data, S_root)
          [] format = "Direct processor list format" ->
                Try(PyIndex(data, K_processors), LAMBDA direct :
                Try(PyIter(direct), LAMBDA items : ParseEach(items, JStr(S_Root))))
          [] OTHER ->
                Try(FlowContents(data, format), LAMBDA flow_contents :
                    extract_processors_from_group(flow_contents, JStr(S_Root))))

\* parse_flow without the second search of lines 358-360
parse_flow_NoFallback(data) ==
    Try(PyIn(K_flowContents, data), LAMBDA isMember : StructuredParse(data))

\* lines 330-364, for a truthy flow_data: the value returned, or the exception
parse_flow(data) ==
    Try(PyIn(K_flowContents, data), LAMBDA isMember :
    Try(StructuredParse(data), LAMBDA found :
        IF Len(found) = 0 THEN find_processors_recursively(data, S_root)
        ELSE Ok(found)))

\* ------------------------------------------------------------------------
\* get_key_properties_for_processor and the rows of the three CSV exports
\* ------------------------------------------------------------------------
F_Processor_Name == <<80, 114, 111, 99, 101, 115, 115, 111, 114, 95, 78, 97, 109, 101>>  \* 'Processor_Name'
F_Processor_ID == <<80, 114, 111, 99, 101, 115, 115, 111, 114, 95, 73, 68>>  \* 'Processor_ID'
F_Processor_Type == <<80, 114, 111, 99, 101, 115, 115, 111, 114, 95, 84, 121, 112, 101>>  \* 'Processor_Type'
F_Status == <<83, 116, 97, 116, 117, 115>>  \* 'Status'
F_Full_Class_Name == <<70, 117, 108, 108, 95, 67, 108, 97, 115, 115, 95, 78, 97, 109, 101>>  \* 'Full_Class_Name'
F_Group_Location == <<71, 114, 111, 117, 112, 95, 76, 111, 99, 97, 116, 105, 111, 110>>  \* 'Group_Location'
F_Concurrent_Tasks == <<67, 111, 110, 99, 117, 114, 114, 101, 110, 116, 95, 84, 97, 115, 107, 115>>  \* 'Concurrent_Tasks'
F_Scheduling_Period == <<83, 99, 104, 101, 100, 117, 108, 105, 110, 103, 95, 80, 101, 114, 105, 111, 100>>  \* 'Scheduling_Period'
F_Scheduling_Strategy == <<83, 99, 104, 101, 100, 117, 108, 105, 110, 103, 95, 83, 116, 114, 97, 116, 101, 103, 121>>  \* 'Scheduling_Strategy'
F_Auto_Terminated_Relationships == <<65, 117, 116, 111, 95, 84, 101, 114, 109, 105, 110, 97, 116, 101, 100, 95, 82, 101, 108, 97, 116, 105, 111, 110, 115, 104, 105, 112, 115>>  \* 'Auto_Terminated_Relationships'
F_Total_Properties_Count == <<84, 111, 116, 97, 108, 95, 80, 114, 111, 112, 101, 114, 116, 105, 101, 115, 95, 67, 111, 117, 110, 116>>  \* 'Total_Properties_Count'
F_All_Properties_JSON == <<65, 108, 108, 95, 80, 114, 111, 112, 101, 114, 116, 105, 101, 115, 95, 74, 83, 79, 78>>  \* 'All_Properties_JSON'
F_Name == <<78, 97, 109, 101>>  \* 'Name'
F_ID == <<73, 68>>  \* 'ID'
F_Total_Props == <<84, 111, 116, 97, 108, 95, 80, 114, 111, 112, 115>>  \* 'Total_Props'
F_Key_Config_ == <<75, 101, 121, 95, 67, 111, 110, 102, 105, 103, 95>>  \* 'Key_Config_'
F__Name == <<95, 78, 97, 109, 101>>  \* '_Name'
F__Value == <<95, 86, 97, 108, 117, 101>>  \* '_Value'
F_Config_ == <<67, 111, 110, 102, 105, 103, 95>>  \* 'Config_'
F_Value_ == <<86, 97, 108, 117, 101, 95>>  \* 'Value_'
S_updateattribute == <<117, 112, 100, 97, 116, 101, 97, 116, 116, 114, 105, 98, 117, 116, 101>>  \* 'updateattribute'
S_EmptyJson == <<123, 125>>  \* '{}'

\* lines 435-460: the key properties of each processor type, in dict order
key_property_mappings ==
    <<
      \* 'mergecontent': ['Merge Format', 'Merge Strategy', 'Minimum Number of Entries', 'Maximum Number of Entries', 'Minimum Group Size', 'Maximum Group Size', 'Delimiter Strategy']
      [key |-> <<109, 101, 114, 103, 101, 99, 111, 110, 116, 101, 110, 116>>,
       props |-> <<<<77, 101, 114, 103, 101, 32, 70, 111, 114, 109, 97, 116>>,
                   <<77, 101, 114, 103, 101, 32, 83, 116, 114, 97, 116, 101, 103, 121>>,
                   <<77, 105, 110, 105, 109, 117, 109, 32, 78, 117, 109, 98, 101, 114, 32, 111, 102, 32, 69, 110, 116, 114, 105, 101, 115>>,
                   <<77, 97, 120, 105, 109, 117, 109, 32, 78, 117, 109, 98, 101, 114, 32, 111, 102, 32, 69, 110, 116, 114, 105, 101, 115>>,
                   <<77, 105, 110, 105, 109, 117, 109, 32, 71, 114, 111, 117, 112, 32, 83, 105, 122, 101>>,
                   <<77, 97, 120, 105, 109, 117, 109, 32, 71, 114, 111, 117, 112, 32, 83, 105, 122, 101>>,
                   <<68, 101, 108, 105, 109, 105, 116, 101, 114, 32, 83, 116, 114, 97, 116, 101, 103, 121>>>>],
      \* 'fetchs3object': ['Bucket', 'Object Key', 'Region', 'Access Key ID', 'Secret Access Key', 'Credentials File', 'AWS Credentials Provider service']
      [key |-> <<102, 101, 116, 99, 104, 115, 51, 111, 98, 106, 101, 99, 116>>,
       props |-> <<<<66, 117, 99, 107, 101, 116>>,
                   <<79, 98, 106, 101, 99, 116, 32, 75, 101, 121>>,
                   <<82, 101, 103, 105, 111, 110>>,
                   <<65, 99, 99, 101, 115, 115, 32, 75, 101, 121, 32, 73, 68>>,
                   <<83, 101, 99, 114, 101, 116, 32, 65, 99, 99, 101, 115, 115, 32, 75, 101, 121>>,
                   <<67, 114, 101, 100, 101, 110, 116, 105, 97, 108, 115, 32, 70, 105, 108, 101>>,
                   <<65, 87, 83, 32, 67, 114, 101, 100, 101, 110, 116, 105, 97, 108, 115, 32, 80, 114, 111, 118, 105, 100, 101, 114, 32, 115, 101, 114, 118, 105, 99, 101>>>>],
      \* 'puts3object': ['Bucket', 'Object Key', 'Region', 'Access Key ID', 'Secret Access Key', 'Content Type', 'Storage Class']
      [key |-> <<112, 117, 116, 115, 51, 111, 98, 106, 101, 99, 116>>,
       props |-> <<<<66, 117, 99, 107, 101, 116>>,
                   <<79, 98, 106, 101, 99, 116, 32, 75, 101, 121>>,
                   <<82, 101, 103, 105, 111, 110>>,
                   <<65, 99, 99, 101, 115, 115, 32, 75, 101, 121, 32, 73, 68>>,
                   <<83, 101, 99, 114, 101, 116, 32, 65, 99, 99, 101, 115, 115, 32, 75, 101, 121>>,
                   <<67, 111, 110, 116, 101, 110, 116, 32, 84, 121, 112, 101>>,
                   <<83, 116, 111, 114, 97, 103, 101, 32, 67, 108, 97, 115, 115>>>>],
      \* 'getfile': ['Input Directory', 'File Filter', 'Recurse Subdirectories', 'Keep Source File', 'Minimum File Age', 'Maximum File Age']
      [key |-> <<103, 101, 116, 102, 105, 108, 101>>,
       props |-> <<<<73, 110, 112, 117, 116, 32, 68, 105, 114, 101, 99, 116, 111, 114, 121>>,
                   <<70, 105, 108, 101, 32, 70, 105, 108, 116, 101, 114>>,
                   <<82, 101, 99, 117, 114, 115, 101, 32, 83, 117, 98, 100, 105, 114, 101, 99, 116, 111, 114, 105, 101, 115>>,
                   <<75, 101, 101, 112, 32, 83, 111, 117, 114, 99, 101, 32, 70, 105, 108, 101>>,
                   <<77, 105, 110, 105, 109, 117, 109, 32, 70, 105, 108, 101, 32, 65, 103, 101>>,
                   <<77, 97, 120, 105, 109, 117, 109, 32, 70, 105, 108, 101, 32, 65, 103, 101>>>>],
      \* 'putfile': ['Directory', 'Conflict Resolution Strategy', 'Create Missing Directories']
      [key |-> <<112, 117, 116, 102, 105, 108, 101>>,
       props |-> <<<<68, 105, 114, 101, 99, 116, 111, 114, 121>>,
                   <<67, 111, 110, 102, 108, 105, 99, 116, 32, 82, 101, 115, 111, 108, 117, 116, 105, 111, 110, 32, 83, 116, 114, 97, 116, 101, 103, 121>>,
                   <<67, 114, 101, 97, 116, 101, 32, 77, 105, 115, 115, 105, 110, 103, 32, 68, 105, 114, 101, 99, 116, 111, 114, 105, 101, 115>>>>],
      \* 'invokehttp': ['HTTP Method', 'Remote URL', 'SSL Context Service', 'Username', 'Password', 'Connect Timeout', 'Read Timeout']
      [key |-> <<105, 110, 118, 111, 107, 101, 104, 116, 116, 112>>,
       props |-> <<<<72, 84, 84, 80, 32, 77, 101, 116, 104, 111, 100>>,
                   <<82, 101, 109, 111, 116, 101, 32, 85, 82, 76>>,
                   <<83, 83, 76, 32, 67, 111, 110, 116, 101, 120, 116, 32, 83, 101, 114, 118, 105, 99, 101>>,
                   <<85, 115, 101, 114, 110, 97, 109, 101>>,
                   <<80, 97, 115, 115, 119, 111, 114, 100>>,
                   <<67, 111, 110, 110, 101, 99, 116, 32, 84, 105, 109, 101, 111, 117, 116>>,
                   <<82, 101, 97, 100, 32, 84, 105, 109, 101, 111, 117, 116>>>>],
      \* 'executescript': ['Script Engine', 'Script File', 'Script Body']
      [key |-> <<101, 120, 101, 99, 117, 116, 101, 115, 99, 114, 105, 112, 116>>,
       props |-> <<<<83, 99, 114, 105, 112, 116, 32, 69, 110, 103, 105, 110, 101>>,
                   <<83, 99, 114, 105, 112, 116, 32, 70, 105, 108, 101>>,
                   <<83, 99, 114, 105, 112, 116, 32, 66, 111, 100, 121>>>>],
      \* 'executestream': ['Command Path', 'Command Arguments', 'Working Directory']
      [key |-> <<101, 120, 101, 99, 117, 116, 101, 115, 116, 114, 101, 97, 109>>,
       props |-> <<<<67, 111, 109, 109, 97, 110, 100, 32, 80, 97, 116, 104>>,
                   <<67, 111, 109, 109, 97, 110, 100, 32, 65, 114, 103, 117, 109, 101, 110, 116, 115>>,
                   <<87, 111, 114, 107, 105, 110, 103, 32, 68, 105, 114, 101, 99, 116, 111, 114, 121>>>>],
      \* 'splittext': ['Line Split Count', 'Maximum Fragment Size', 'Header Line Count', 'Remove Trailing Newlines']
      [key |-> <<115, 112, 108, 105, 116, 116, 101, 120, 116>>,
       props |-> <<<<76, 105, 110, 101, 32, 83, 112, 108, 105, 116, 32, 67, 111, 117, 110, 116>>,
                   <<77, 97, 120, 105, 109, 117, 109, 32, 70, 114, 97, 103, 109, 101, 110, 116, 32, 83, 105, 122, 101>>,
                   <<72, 101, 97, 100, 101, 114, 32, 76, 105, 110, 101, 32, 67, 111, 117, 110, 116>>,
                   <<82, 101, 109, 111, 118, 101, 32, 84, 114, 97, 105, 108, 105, 110, 103, 32, 78, 101, 119, 108, 105, 110, 101, 115>>>>],
      \* 'splitjson': ['JsonPath Expression']
      [key |-> <<115, 112, 108, 105, 116, 106, 115, 111, 110>>,
       props |-> <<<<74, 115, 111, 110, 80, 97, 116, 104, 32, 69, 120, 112, 114, 101, 115, 115, 105, 111, 110>>>>],
      \* 'splitxml': ['Split Depth']
      [key |-> <<115, 112, 108, 105, 116, 120, 109, 108>>,
       props |-> <<<<83, 112, 108, 105, 116, 32, 68, 101, 112, 116, 104>>>>],
      \* 'routeonattribute': ['Routing Strategy']
      [key |-> <<114, 111, 117, 116, 101, 111, 110, 97, 116, 116, 114, 105, 98, 117, 116, 101>>,
       props |-> <<<<82, 111, 117, 116, 105, 110, 103, 32, 83, 116, 114, 97, 116, 101, 103, 121>>>>],
      \* 'routeoncontent': ['Match Requirement']
      [key |-> <<114, 111, 117, 116, 101, 111, 110, 99, 111, 110, 116, 101, 110, 116>>,
       props |-> <<<<77, 97, 116, 99, 104, 32, 82, 101, 113, 117, 105, 114, 101, 109, 101, 110, 116>>>>],
      \* 'updateattribute': []
      [key |-> <<117, 112, 100, 97, 116, 101, 97, 116, 116, 114, 105, 98, 117, 116, 101>>,
       props |-> <<>>],
      \* 'extracttext': ['Character Set', 'Maximum Buffer Size']
      [key |-> <<101, 120, 116, 114, 97, 99, 116, 116, 101, 120, 116>>,
       props |-> <<<<67, 104, 97, 114, 97, 99, 116, 101, 114, 32, 83, 101, 116>>,
                   <<77, 97, 120, 105, 109, 117, 109, 32, 66, 117, 102, 102, 101, 114, 32, 83, 105, 122, 101>>>>],
      \* 'replacetext': ['Search Value', 'Replacement Value', 'Character Set', 'Maximum Buffer Size', 'Replacement Strategy']
      [key |-> <<114, 101, 112, 108, 97, 99, 101, 116, 101, 120, 116>>,
       props |-> <<<<83, 101, 97, 114, 99, 104, 32, 86, 97, 108, 117, 101>>,
                   <<82, 101, 112, 108, 97, 99, 101, 109, 101, 110, 116, 32, 86, 97, 108, 117, 101>>,
                   <<67, 104, 97, 114, 97, 99, 116, 101, 114, 32, 83, 101, 116>>,
                   <<77, 97, 120, 105, 109, 117, 109, 32, 66, 117, 102, 102, 101, 114, 32, 83, 105, 122, 101>>,
                   <<82, 101, 112, 108, 97, 99, 101, 109, 101, 110, 116, 32, 83, 116, 114, 97, 116, 101, 103, 121>>>>],
      \* 'convertrecord': ['Record Reader', 'Record Writer']
      [key |-> <<99, 111, 110, 118, 101, 114, 116, 114, 101, 99, 111, 114, 100>>,
       props |-> <<<<82, 101, 99, 111, 114, 100, 32, 82, 101, 97, 100, 101, 114>>,
                   <<82, 101, 99, 111, 114, 100, 32, 87, 114, 105, 116, 101, 114>>>>],
      \* 'queryrecord': ['Record Reader', 'Record Writer', 'Include Zero Record FlowFiles']
      [key |-> <<113, 117, 101, 114, 121, 114, 101, 99, 111, 114, 100>>,
       props |-> <<<<82, 101, 99, 111, 114, 100, 32, 82, 101, 97, 100, 101, 114>>,
                   <<82, 101, 99, 111, 114, 100, 32, 87, 114, 105, 116, 101, 114>>,
                   <<73, 110, 99, 108, 117, 100, 101, 32, 90, 101, 114, 111, 32, 82, 101, 99, 111, 114, 100, 32, 70, 108, 111, 119, 70, 105, 108, 101, 115>>>>],
      \* 'partitionrecord': ['Record Reader', 'Record Writer', 'Partition Values']
      [key |-> <<112, 97, 114, 116, 105, 116, 105, 111, 110, 114, 101, 99, 111, 114, 100>>,
       props |-> <<<<82, 101, 99, 111, 114, 100, 32, 82, 101, 97, 100, 101, 114>>,
                   <<82, 101, 99, 111, 114, 100, 32, 87, 114, 105, 116, 101, 114>>,
                   <<80, 97, 114, 116, 105, 116, 105, 111, 110, 32, 86, 97, 108, 117, 101, 115>>>>],
      \* 'publishkafka': ['Kafka Brokers', 'Topic Name', 'Delivery Guarantee', 'Key Attribute Encoding', 'Message Key Field']
      [key |-> <<112, 117, 98, 108, 105, 115, 104, 107, 97, 102, 107, 97>>,
       props |-> <<<<75, 97, 102, 107, 97, 32, 66, 114, 111, 107, 101, 114, 115>>,
                   <<84, 111, 112, 105, 99, 32, 78, 97, 109, 101>>,
                   <<68, 101, 108, 105, 118, 101, 114, 121, 32, 71, 117, 97, 114, 97, 110, 116, 101, 101>>,
                   <<75, 101, 121, 32, 65, 116, 116, 114, 105, 98, 117, 116, 101, 32, 69, 110, 99, 111, 100, 105, 110, 103>>,
                   <<77, 101, 115, 115, 97, 103, 101, 32, 75, 101, 121, 32, 70, 105, 101, 108, 100>>>>],
      \* 'consumekafka': ['Kafka Brokers', 'Topic Name(s)', 'Topic Name Format', 'Group ID', 'Offset Reset']
      [key |-> <<99, 111, 110, 115, 117, 109, 101, 107, 97, 102, 107, 97>>,
       props |-> <<<<75, 97, 102, 107, 97, 32, 66, 114, 111, 107, 101, 114, 115>>,
                   <<84, 111, 112, 105, 99, 32, 78, 97, 109, 101, 40, 115, 41>>,
                   <<84, 111, 112, 105, 99, 32, 78, 97, 109, 101, 32, 70, 111, 114, 109, 97, 116>>,
                   <<71, 114, 111, 117, 112, 32, 73, 68>>,
                   <<79, 102, 102, 115, 101, 116, 32, 82, 101, 115, 101, 116>>>>],
      \* 'wait': ['Release Signal Identifier', 'Target Signal Count', 'Signal Counter Name']
      [key |-> <<119, 97, 105, 116>>,
       props |-> <<<<82, 101, 108, 101, 97, 115, 101, 32, 83, 105, 103, 110, 97, 108, 32, 73, 100, 101, 110, 116, 105, 102, 105, 101, 114>>,
                   <<84, 97, 114, 103, 101, 116, 32, 83, 105, 103, 110, 97, 108, 32, 67, 111, 117, 110, 116>>,
                   <<83, 105, 103, 110, 97, 108, 32, 67, 111, 117, 110, 116, 101, 114, 32, 78, 97, 109, 101>>>>],
      \* 'notify': ['Release Signal Identifier', 'Signal Counter Name', 'Signal Counter Delta']
      [key |-> <<110, 111, 116, 105, 102, 121>>,
       props |-> <<<<82, 101, 108, 101, 97, 115, 101, 32, 83, 105, 103, 110, 97, 108, 32, 73, 100, 101, 110, 116, 105, 102, 105, 101, 114>>,
                   <<83, 105, 103, 110, 97, 108, 32, 67, 111, 117, 110, 116, 101, 114, 32, 78, 97, 109, 101>>,
                   <<83, 105, 103, 110, 97, 108, 32, 67, 111, 117, 110, 116, 101, 114, 32, 68, 101, 108, 116, 97>>>>],
      \* 'generateflowfile': ['File Size', 'Batch Size', 'Data Format', 'Custom Text']
      [key |-> <<103, 101, 110, 101, 114, 97, 116, 101, 102, 108, 111, 119, 102, 105, 108, 101>>,
       props |-> <<<<70, 105, 108, 101, 32, 83, 105, 122, 101>>,
                   <<66, 97, 116, 99, 104, 32, 83, 105, 122, 101>>,
                   <<68, 97, 116, 97, 32, 70, 111, 114, 109, 97, 116>>,
                   <<67, 117, 115, 116, 111, 109, 32, 84, 101, 120, 116>>>>]
    >>

\* line 482: the words that make a property look like a key configuration
keywords ==
    <<<<117, 114, 108>>,  \* 'url',
      <<112, 97, 116, 104>>,  \* 'path',
      <<100, 105, 114, 101, 99, 116, 111, 114, 121>>,  \* 'directory',
      <<102, 105, 108, 101>>,  \* 'file',
      <<104, 111, 115, 116>>,  \* 'host',
      <<112, 111, 114, 116>>,  \* 'port',
      <<116, 111, 112, 105, 99>>,  \* 'topic',
      <<113, 117, 101, 117, 101>>,  \* 'queue',
      <<116, 97, 98, 108, 101>>,  \* 'table',
      <<113, 117, 101, 114, 121>>,  \* 'query',
      <<101, 120, 112, 114, 101, 115, 115, 105, 111, 110>>,  \* 'expression',
      <<102, 111, 114, 109, 97, 116>>,  \* 'format',
      <<115, 116, 114, 97, 116, 101, 103, 121>>  \* 'strategy'
    >>

\* lines 562-568: the processor types of the focused export
focus_processors ==
    <<<<77, 101, 114, 103, 101, 67, 111, 110, 116, 101, 110, 116>>,  \* 'MergeContent',
      <<70, 101, 116, 99, 104, 83, 51, 79, 98, 106, 101, 99, 116>>,  \* 'FetchS3Object',
      <<80, 117, 116, 83, 51, 79, 98, 106, 101, 99, 116>>,  \* 'PutS3Object',
      <<71, 101, 116, 70, 105, 108, 101>>,  \* 'GetFile',
      <<80, 117, 116, 70, 105, 108, 101>>,  \* 'PutFile',
      <<73, 110, 118, 111, 107, 101, 72, 84, 84, 80>>,  \* 'InvokeHTTP',
      <<69, 120, 101, 99, 117, 116, 101, 83, 99, 114, 105, 112, 116>>,  \* 'ExecuteScript',
      <<69, 120, 101, 99, 117, 116, 101, 83, 116, 114, 101, 97, 109, 67, 111, 109, 109, 97, 110, 100>>,  \* 'ExecuteStreamCommand',
      <<83, 112, 108, 105, 116, 84, 101, 120, 116>>,  \* 'SplitText',
      <<83, 112, 108, 105, 116, 74, 115, 111, 110>>,  \* 'SplitJson',
      <<83, 112, 108, 105, 116, 88, 109, 108>>,  \* 'SplitXml',
      <<82, 111, 117, 116, 101, 79, 110, 65, 116, 116, 114, 105, 98, 117, 116, 101>>,  \* 'RouteOnAttribute',
      <<82, 111, 117, 116, 101, 79, 110, 67, 111, 110, 116, 101, 110, 116>>,  \* 'RouteOnContent',
      <<85, 112, 100, 97, 116, 101, 65, 116, 116, 114, 105, 98, 117, 116, 101>>,  \* 'UpdateAttribute',
      <<82, 101, 112, 108, 97, 99, 101, 84, 101, 120, 116>>,  \* 'ReplaceText',
      <<69, 120, 116, 114, 97, 99, 116, 84, 101, 120, 116>>,  \* 'ExtractText',
      <<67, 111, 110, 118, 101, 114, 116, 82, 101, 99, 111, 114, 100>>,  \* 'ConvertRecord',
      <<81, 117, 101, 114, 121, 82, 101, 99, 111, 114, 100>>,  \* 'QueryRecord',
      <<80, 117, 98, 108, 105, 115, 104, 75, 97, 102, 107, 97>>,  \* 'PublishKafka',
      <<67, 111, 110, 115, 117, 109, 101, 75, 97, 102, 107, 97>>,  \* 'ConsumeKafka',
      <<87, 97, 105, 116>>,  \* 'Wait',
      <<78, 111, 116, 105, 102, 121>>,  \* 'Notify',
      <<71, 101, 110, 101, 114, 97, 116, 101, 70, 108, 111, 119, 70, 105, 108, 101>>  \* 'GenerateFlowFile'
    >>

\* the length above which the matrix export cuts a value (line 679)
MatrixDisplayLength == 100

\* x in a list
InList(x, list) == \E i \in 1..Len(list) : list[i] = x

\* str.split('.')[-1]: what follows the last dot, the whole str without one
LastDotPart(str) ==
    Then({i \in 1..Len(str) : str[i] = 46}, LAMBDA dots :
        IF dots = {} THEN str
        ELSE SubSeq(str, (CHOOSE i \in dots : \A j \in dots : j <= i) + 1, Len(str)))

\* lines 463-467: the properties of the first table key contained in the
\* lowered type, none without such a key
RelevantProperties(proc_type_lower) ==
    Then(SelectSeq(key_property_mappings, LAMBDA m : Contains(m.key, proc_type_lower)),
         LAMBDA hits : IF Len(hits) = 0 THEN <<>> ELSE hits[1].props)

\* line 482: any(keyword in clean_prop_key.lower() for keyword in [...])
LooksLikeKeyConfiguration(clean_prop_key) ==
    Then(Lower(clean_prop_key), LAMBDA lowered :
        \E i \in 1..Len(keywords) : Contains(keywords[i], lowered))

\* lines 471-483: is the property taken as a key configuration
IsKeyProperty(prop_key, prop_value, proc_type_lower, relevant_properties) ==
    Then(clean_data(JStr(prop_key)), LAMBDA clean_prop_key :
        \/ InList(clean_prop_key, relevant_properties)
        \/ InList(prop_key, relevant_properties)
        \/ /\ Len(prop_value) > 0
           /\ Len(Strip(prop_value)) > 0
           /\ \/ Contains(S_updateattribute, proc_type_lower)
              \/ LooksLikeKeyConfiguration(clean_prop_key))

RECURSIVE KeyProps(_, _, _, _)
\* the loop of lines 470-483 over properties.items(): every property taken
\* is put under its cleaned key with clean_sensitive_property of its value
KeyProps(items, proc_type_lower, relevant_properties, key_props) ==
    IF Len(items) = 0 THEN key_props
    ELSE KeyProps(Tail(items), proc_type_lower, relevant_properties,
            IF IsKeyProperty(Head(items)[1], Head(items)[2], proc_type_lower,
                             relevant_properties)
            THEN DictSet(key_props, clean_data(JStr(Head(items)[1])),
                         clean_sensitive_property(Head(items)[1], JStr(Head(items)[2])))
            ELSE key_props)

get_key_properties_for_processor(proc_type, properties) ==
    Then(Lower(proc_type), LAMBDA proc_type_lower :
        KeyProps(properties, proc_type_lower, RelevantProperties(proc_type_lower), <<>>))

\* the four hexadecimal digits of \u00XX for a character below 32
Hex4(c) == <<48, 48>> \o <<IF c \div 16 = 0 THEN 48 ELSE 49>>
           \o <<IF c % 16 < 10 THEN 48 + (c % 16) ELSE 87 + (c % 16)>>

\* json.dumps of one character of a str (ensure_ascii, the model's strings
\* are ASCII): " and \ get a backslash, a control character its escape
JsonChar(c) ==
    CASE c = 34 -> <<92, 34>>
      [] c = 92 -> <<92, 92>>
      [] c = 10 -> <<92, 110>>
      [] c = 13 -> <<92, 114>>
      [] c = 9 -> <<92, 116>>
      [] c = 8 -> <<92, 98>>
      [] c = 12 -> <<92, 102>>
      [] c < 32 -> <<92, 117>> \o Hex4(c)
      [] OTHER -> <<c>>

RECURSIVE JsonCharsFrom(_, _)
\* the characters of s from the i-th on as json.dumps writes them (the first
\* half of them, then the second half)
JsonCharsFrom(s, i) ==
    IF i > Len(s) THEN <<>>
    ELSE IF i = Len(s) THEN JsonChar(s[i])
    ELSE JsonCharsFrom(SubSeq(s, 1, (i + Len(s)) \div 2), i)
         \o JsonCharsFrom(s, (i + Len(s)) \div 2 + 1)

\* json.dumps(s) of a str
JsonString(s) == <<34>> \o JsonCharsFrom(s, 1) \o <<34>>

\* json.dumps(d) of a dict of str to str: {"k": "v", "k2": "v2"}
JsonDumps(d) ==
    <<123>>
    \o Join([i \in 1..Len(d) |-> JsonString(d[i][1]) \o <<58, 32>> \o JsonString(d[i][2])],
            <<44, 32>>)
    \o <<125>>

RECURSIVE KeyConfigColumns(_, _, _, _, _, _)
\* lines 532-543 and 613-624: for i up to count the columns
\* nameOf[1]<i>nameOf[2] and valueOf[1]<i>valueOf[2], filled from the i-th
\* item of key_props_list and left empty beyond its length
KeyConfigColumns(row, key_props_list, i, count, nameOf, valueOf) ==
    IF i > count THEN row
    ELSE KeyConfigColumns(
            DictSet(DictSet(row, nameOf[1] \o Decimal(i) \o nameOf[2],
                            IF i <= Len(key_props_list)
                            THEN clean_data(JStr(key_props_list[i][1])) ELSE <<>>),
                    valueOf[1] \o Decimal(i) \o valueOf[2],
                    IF i <= Len(key_props_list) THEN key_props_list[i][2] ELSE <<>>),
            key_props_list, i + 1, count, nameOf, valueOf)

\* lines 510-543: the row of one record in the summary export
SummaryRow(proc) ==
    Then(LastDotPart(proc.type), LAMBDA proc_type :
        KeyConfigColumns(
            << <<F_Processor_Name, proc.name>>,
               <<F_Processor_ID, proc.id>>,
               <<F_Processor_Type, proc_type>>,
               <<F_Status, proc.state>>,
               <<F_Full_Class_Name, proc.type>>,
               <<F_Group_Location, proc.group>>,
               <<F_Concurrent_Tasks, proc.concurrent_tasks>>,
               <<F_Scheduling_Period, proc.scheduling_period>>,
               <<F_Scheduling_Strategy, proc.scheduling_strategy>>,
               <<F_Auto_Terminated_Relationships,
                 Join(proc.auto_terminated_relationships, <<59, 32>>)>>,
               <<F_Total_Properties_Count, Len(proc.properties)>>,
               <<F_All_Properties_JSON,
                 IF Len(proc.properties) > 0 THEN JsonDumps(proc.properties)
                 ELSE S_EmptyJson>> >>,
            get_key_properties_for_processor(proc_type, proc.properties),
            1, 5, <<F_Key_Config_, F__Name>>, <<F_Key_Config_, F__Value>>))

\* lines 490-545: one row per record; nothing is written without a record
export_processor_summary_csv(procs) ==
    [i \in 1..Len(procs) |-> SummaryRow(procs[i])]

\* lines 572-577: is the class name of the record one of the focus types
IsFocusProcessor(proc) ==
    Then(Lower(LastDotPart(proc.type)), LAMBDA lowered :
        \E i \in 1..Len(focus_processors) : Contains(Lower(focus_processors[i]), lowered))

\* lines 596-626: the row of one record in the focused export
FocusedRow(proc) ==
    Then(LastDotPart(proc.type), LAMBDA proc_type :
        KeyConfigColumns(
            << <<F_Processor_Type, proc_type>>,
               <<F_Status, proc.state>>,
               <<F_Name, proc.name>>,
               <<F_ID, proc.id>>,
               <<F_Group_Location, proc.group>>,
               <<F_Concurrent_Tasks, proc.concurrent_tasks>>,
               <<F_Scheduling_Period, proc.scheduling_period>>,
               <<F_Scheduling_Strategy, proc.scheduling_strategy>>,
               <<F_Total_Props, Len(proc.properties)>> >>,
            get_key_properties_for_processor(proc_type, proc.properties),
            1, 6, <<F_Config_, <<>>>>, <<F_Value_, <<>>>>))

\* lines 556-626: one row per record of a focus type
export_focused_processors_csv(procs) ==
    Then(SelectSeq(procs, IsFocusProcessor), LAMBDA filtered_processors :
        [i \in 1..Len(filtered_processors) |-> FocusedRow(filtered_processors[i])])

\* a < b for two str
StrLess(a, b) ==
    \E i \in 1..Len(b) :
        /\ \A j \in 1..(i - 1) : j <= Len(a) /\ a[j] = b[j]
        /\ (i = Len(a) + 1 \/ (i <= Len(a) /\ a[i] < b[i]))

\* lines 643-647: sorted(all_properties), the keys of the properties of all
\* the records
AllProperties(procs) ==
    Then(UNION {{procs[i].properties[j][1] : j \in 1..Len(procs[i].properties)} :
                i \in 1..Len(procs)}, LAMBDA names :
        CHOOSE sorted \in [1..Cardinality(names) -> names] :
            \A i, j \in 1..Cardinality(names) : i < j => StrLess(sorted[i], sorted[j]))

\* proc['properties'].get(prop_name, '')
PropertyOrEmpty(properties, prop_name) ==
    IF \E i \in 1..Len(properties) : properties[i][1] = prop_name
    THEN properties[CHOOSE i \in 1..Len(properties) : properties[i][1] = prop_name][2]
    ELSE <<>>

\* line 679: a value of more than 100 characters is cut and marked
MatrixValue(prop_value) ==
    IF Len(prop_value) <= MatrixDisplayLength THEN prop_value
    ELSE SubSeq(prop_value, 1, MatrixDisplayLength) \o S_TRUNCATED

RECURSIVE PropertyColumns(_, _, _)
\* lines 675-680: row[prop_name] for every name of all_properties
PropertyColumns(row, properties, all_properties) ==
    IF Len(all_properties) = 0 THEN row
    ELSE PropertyColumns(
            DictSet(row, Head(all_properties),
                    MatrixValue(PropertyOrEmpty(properties, Head(all_properties)))),
            properties, Tail(all_properties))

\* lines 660-680: the row of one record in the matrix export
MatrixRow(proc, all_properties) ==
    PropertyColumns(
        << <<F_Processor_Name, proc.name>>,
           <<F_Processor_ID, proc.id>>,
           <<F_Processor_Type, LastDotPart(proc.type)>>,
           <<F_Status, proc.state>>,
           <<F_Group_Location, proc.group>>,
           <<F_Concurrent_Tasks, proc.concurrent_tasks>>,
           <<F_Scheduling_Period, proc.scheduling_period>>,
           <<F_Scheduling_Strategy, proc.scheduling_strategy>> >>,
        proc.properties, all_properties)

\* lines 637-682: one row per record, one column per property name
export_properties_matrix_csv(procs) ==
    Then(AllProperties(procs), LAMBDA all_properties :
        [i \in 1..Len(procs) |-> MatrixRow(procs[i], all_properties)])

\* ------------------------------------------------------------------------
\* Inputs: the documents a file may hold and the arguments of the unit calls
\* ------------------------------------------------------------------------
V_p1 == <<112, 49>>  \* 'p1'
V_p2 == <<112, 50>>  \* 'p2'
V_A == <<65>>  \* 'A'
V_B == <<66>>  \* 'B'
V_orgT == <<111, 114, 103, 46, 84>>  \* 'org.T'
V_C == <<67>>  \* 'C'
V_x9 == <<120, 57>>  \* 'x9'
V_G == <<71>>  \* 'G'
V_H == <<72>>  \* 'H'
V_Running == <<82, 117, 110, 110, 105, 110, 103>>  \* 'Running'
V_stopped == <<115, 116, 111, 112, 112, 101, 100>>  \* 'stopped'
V_ENABLED == <<69, 78, 65, 66, 76, 69, 68>>  \* 'ENABLED'
V_TIMER_DRIVEN == <<84, 73, 77, 69, 82, 95, 68, 82, 73, 86, 69, 78>>  \* 'TIMER_DRIVEN'
V_Stopped == <<83, 116, 111, 112, 112, 101, 100>>  \* 'Stopped'
V_Invalid == <<73, 110, 118, 97, 108, 105, 100>>  \* 'Invalid'
V_Validating == <<86, 97, 108, 105, 100, 97, 116, 105, 110, 103>>  \* 'Validating'
V_paddedRun == <<32, 114, 117, 110, 10>>  \* ' run\n'
V_blank == <<32, 9>>  \* ' \t'
V_5sec == <<53, 32, 115, 101, 99>>  \* '5 sec'
V_1min == <<49, 32, 109, 105, 110>>  \* '1 min'
V_url == <<117, 114, 108>>  \* 'url'
V_x == <<120>>  \* 'x'
V_abc123 == <<97, 98, 99, 49, 50, 51>>  \* 'abc123'
V_myPassword == <<109, 121, 32, 112, 97, 115, 115, 119, 111, 114, 100>>  \* 'my password'
N_SecretAccessKey == <<83, 101, 99, 114, 101, 116, 32, 65, 99, 99, 101, 115, 115, 32, 75, 101, 121>>  \* 'Secret Access Key'
N_PASSWORD == <<80, 65, 83, 83, 87, 79, 82, 68>>  \* 'PASSWORD'
N_api_token == <<97, 112, 105, 95, 116, 111, 107, 101, 110>>  \* 'api_token'
N_KeyStorePath == <<75, 101, 121, 83, 116, 111, 114, 101, 32, 80, 97, 116, 104>>  \* 'KeyStore Path'
N_CredentialFile == <<67, 114, 101, 100, 101, 110, 116, 105, 97, 108, 32, 70, 105, 108, 101>>  \* 'Credential File'
N_Directory == <<68, 105, 114, 101, 99, 116, 111, 114, 121>>  \* 'Directory'
N_RemoteURL == <<82, 101, 109, 111, 116, 101, 32, 85, 82, 76>>  \* 'Remote URL'
K_data == <<100, 97, 116, 97>>  \* 'data'
V_ci == <<99, 105>>  \* 'ci'
V_quoted == <<97, 34, 98>>  \* 'a"b'
V_ctrlText == <<97, 1, 9, 98, 13, 10, 127, 99>>  \* 'a\x01\tb\r\n\x7fc'
N_quotedKey == <<107, 34>>  \* 'k"'
N_ctrlKey == <<107, 7, 10, 107>>  \* 'k\x07\nk'

\* the greatest nesting depth of process groups in the generated documents
MaxDepth == 1

Absent == [t |-> "absent", s |-> <<>>, ks |-> <<>>, vs |-> <<>>]

\* the dict of the fields (<<key, value>>, in order) whose value is not Absent
Mk(fields) ==
    LET present == SelectSeq(fields, LAMBDA f : f[2] # Absent)
    IN JObj([i \in 1..Len(present) |-> present[i][1]],
            [i \in 1..Len(present) |-> present[i][2]])

\* records that differ in the fields get_processor_state reads
StateRecords ==
    { Mk(<< <<K_identifier, JStr(V_p1)>>, <<K_name, JStr(V_A)>>,
            <<K_state, st>>, <<K_component, co>>, <<K_status, su>>,
            <<K_runStatus, rs>>, <<K_config, cf>> >>) :
        st \in {Absent, JStr(<<>>), JStr(V_Running), JStr(V_stopped), JStr(V_ENABLED), JNull},
        co \in {Absent, JEmptyObj,
                Mk(<< <<K_state, JStr(S_STOPPED)>> >>),
                Mk(<< <<K_config, Mk(<< <<K_schedulingStrategy, JStr(S_DISABLED)>> >>)>> >>),
                Mk(<< <<K_config, Mk(<< <<K_schedulingStrategy, JStr(V_TIMER_DRIVEN)>> >>)>> >>),
                Mk(<< <<K_config, JNull>> >>)},
        su \in {Absent, JEmptyObj, JNull, JStr(V_Invalid),
                Mk(<< <<K_runStatus, JStr(V_Running)>> >>),
                Mk(<< <<K_aggregateSnapshot, Mk(<< <<K_runStatus, JStr(V_Stopped)>> >>)>> >>),
                Mk(<< <<K_runStatus, JStr(V_Running)>>, <<K_aggregateSnapshot, JNull>> >>)},
        rs \in {Absent, JStr(<<>>), JStr(V_Validating), JStr(V_paddedRun)},
        cf \in {Absent,
                Mk(<< <<K_schedulingStrategy, JStr(S_DISABLED)>> >>),
                Mk(<< <<K_properties, JNull>> >>),
                Mk(<< <<K_properties, Mk(<< <<V_url, JStr(V_x)>> >>)>> >>)} }

\* records that differ in the identity fields
IdentityRecords ==
    { Mk(<< <<K_identifier, ident>>, <<K_id, id>>, <<K_name, name>>, <<K_type, type>>,
            <<K_class, class>>, <<K_schedulingStrategy, strategy>> >>) :
        ident \in {Absent, JNull, JStr(<<>>), JStr(V_blank), JStr(V_p1)},
        id \in {Absent, JNull, JStr(V_x9)},
        name \in {Absent, JNull, JStr(<<>>), JStr(V_A)},
        type \in {Absent, JNull, JStr(V_orgT)},
        class \in {Absent, JStr(V_C)},
        strategy \in {Absent, JStr(S_DISABLED)} }

\* records that differ in the scheduling fields
SchedulingRecords ==
    { Mk(<< <<K_identifier, JStr(V_p1)>>, <<K_name, JStr(V_A)>>,
            <<K_schedulingPeriod, period>>, <<K_runSchedule, schedule>>,
            <<K_concurrentlySchedulableTaskCount, count>>, <<K_maxConcurrentTasks, tasks>> >>) :
        period \in {Absent, JNull, JStr(V_5sec)},
        schedule \in {Absent, JNull, JStr(V_1min)},
        count \in {Absent, JNull, JNum(<<50>>)},
        tasks \in {Absent, JNull, JNum(<<52>>)} }

\* the config blocks of a component wrapper
ComponentConfigs ==
    { Mk(<< <<K_schedulingStrategy, strategy>>, <<K_schedulingPeriod, period>>,
            <<K_concurrentlySchedulableTaskCount, count>>,
            <<K_penaltyDuration, duration>>, <<K_yieldDuration, duration>>,
            <<K_bulletinLevel, level>>, <<K_autoTerminatedRelationships, rels>> >>) :
        strategy \in {Absent, JStr(S_DISABLED)},
        period \in {Absent, JStr(V_1min)},
        count \in {Absent, JNum(<<52>>)},
        duration \in {Absent, JStr(V_1min)},
        level \in {Absent, JStr(V_B)},
        rels \in {Absent, JList(<<JStr(V_url)>>)} }

\* records that carry every field themselves and some of them in a component
\* wrapper too
ComponentRecords ==
    { Mk(<< <<K_identifier, JStr(V_p1)>>, <<K_name, JStr(V_A)>>, <<K_type, JStr(V_orgT)>>,
            <<K_schedulingStrategy, JStr(V_TIMER_DRIVEN)>>,
            <<K_schedulingPeriod, JStr(V_5sec)>>,
            <<K_concurrentlySchedulableTaskCount, JNum(<<50>>)>>,
            <<K_penaltyDuration, JStr(V_5sec)>>, <<K_yieldDuration, JStr(V_5sec)>>,
            <<K_bulletinLevel, JStr(V_A)>>,
            <<K_autoTerminatedRelationships, JList(<<JStr(V_x)>>)>>,
            <<K_component, Mk(<< <<K_id, id>>, <<K_name, name>>, <<K_type, type>>,
                                 <<K_config, config>> >>)>> >>) :
        id \in {Absent, JStr(V_ci)},
        name \in {Absent, JStr(V_B)},
        type \in {Absent, JStr(V_C)},
        config \in {Absent} \cup ComponentConfigs }

\* property mappings whose keys and values hold quotes and control characters
PropertyDicts ==
    { Mk(<< <<key, value>> >>) :
        key \in {V_url, N_quotedKey, N_ctrlKey},
        value \in {JStr(V_x), JStr(V_quoted), JStr(V_ctrlText)} }

\* d wrapped under key, nothing for an Absent d
Under(key, d) == IF d = Absent THEN Absent ELSE Mk(<< <<key, d>> >>)

\* records with properties at the three places parse_processor reads them from
PropertyRecords ==
    { Mk(<< <<K_identifier, JStr(V_p1)>>, <<K_properties, top>>,
            <<K_config, Under(K_properties, inConfig)>>,
            <<K_component, Under(K_config, Under(K_properties, inComponent))>> >>) :
        top \in {Absent} \cup PropertyDicts,
        inConfig \in {Absent} \cup PropertyDicts,
        inComponent \in {Absent} \cup PropertyDicts }

ProcessorRecords ==
    StateRecords \cup IdentityRecords \cup SchedulingRecords \cup ComponentRecords
    \cup PropertyRecords

PropertyNames ==
    {N_SecretAccessKey, N_PASSWORD, N_api_token, N_KeyStorePath, N_CredentialFile,
     N_Directory, N_RemoteURL}

PropertyValues ==
    {JStr(V_abc123), JStr(<<>>), JStr(S_SENSITIVE), JStr(S_NotSet), JStr(V_myPassword),
     JStr(S_token), JNull, JNum(<<48>>), JNum(<<53>>), JBool(FALSE), JBool(TRUE),
     JList(<<>>), JList(<<JStr(V_x)>>)}

UnitCalls ==
    [fn : {"get_processor_state"}, processor : StateRecords]
    \cup [fn : {"parse_processor"}, processor : ProcessorRecords, group_name : {JStr(S_Root)}]
    \cup [fn : {"clean_sensitive_property"}, prop_name : PropertyNames, prop_value : PropertyValues]

NoArg == [fn |-> "none"]

P1 == Mk(<< <<K_identifier, JStr(V_p1)>>, <<K_name, JStr(V_A)>>, <<K_type, JStr(V_orgT)>>,
           <<K_state, JStr(V_Running)>> >>)
P2 == Mk(<< <<K_id, JStr(V_p2)>>, <<K_name, JStr(V_B)>>, <<K_state, JStr(V_stopped)>> >>)

LeafGroups ==
    { Mk(<< <<K_name, name>>, <<K_processors, procs>> >>) :
        name \in {Absent, JStr(V_G)},
        procs \in {Absent, JList(<<P1>>), JList(<<P1, P2>>)} }

RECURSIVE Groups(_)
\* process groups nested at most depth levels deep
Groups(depth) ==
    IF depth = 0 THEN LeafGroups
    ELSE Groups(depth - 1) \cup
         { Mk(<< <<K_name, name>>, <<K_processors, procs>>,
                 <<K_processGroups, JList(<<child>>)>> >>) :
             name \in {Absent, JStr(V_H)},
             procs \in {Absent, JList(<<P2>>)},
             child \in Groups(depth - 1) }

GEmpty == JEmptyObj
GOne == Mk(<< <<K_processors, JList(<<P1>>)>> >>)
GNested == Mk(<< <<K_processGroups,
                   JList(<<Mk(<< <<K_name, JStr(V_G)>>, <<K_processors, JList(<<P2>>)>> >>)>>)>> >>)

\* documents with any combination of the envelope keys
EnvelopeDocuments ==
    { Mk(<< <<K_data, other>>, <<K_processors, direct>>, <<K_flow, flow>>,
            <<K_versionedFlowSnapshot, snapshot>>, <<K_processGroupFlow, pgFlow>>,
            <<K_flowContents, contents>> >>) :
        other \in {Absent, GOne},
        direct \in {Absent, JList(<<>>), JList(<<P2>>)},
        flow \in {Absent, GEmpty, GOne, GNested},
        snapshot \in {Absent, JEmptyObj, Mk(<< <<K_flowContents, GNested>> >>)},
        pgFlow \in {Absent, JEmptyObj, Mk(<< <<K_flow, GEmpty>> >>), Mk(<< <<K_flow, GOne>> >>)},
        contents \in {Absent, GEmpty, GOne, JNull} }

\* documents with nested groups, under a known and under an unknown key
DeepDocuments ==
    { Mk(<< <<key, group>> >>) : key \in {K_flowContents, K_data}, group \in Groups(MaxDepth) }

\* records whose nested fields are null
NullFieldRecords ==
    { Mk(<< <<K_id, JStr(V_p1)>>, <<K_status, Mk(<< <<K_aggregateSnapshot, JNull>> >>)>> >>),
      Mk(<< <<K_id, JStr(V_p1)>>, <<K_state, JStr(V_Running)>>,
            <<K_config, Mk(<< <<K_properties, JNull>> >>)>> >>),
      Mk(<< <<K_id, JStr(V_p1)>>, <<K_state, JStr(V_Running)>>,
            <<K_component, Mk(<< <<K_id, JStr(V_p2)>>, <<K_config, JNull>> >>)>> >>),
      Mk(<< <<K_id, JStr(V_p1)>>, <<K_state, JStr(V_Running)>>,
            <<K_config, Mk(<< <<K_properties, Mk(<< <<V_url, JStr(V_x)>> >>)>> >>)>> >>) }

NullFieldDocuments ==
    { Mk(<< <<key, Mk(<< <<K_processors, JList(<<P2, record>>)>> >>)>> >>) :
        key \in {K_flow, K_data}, record \in NullFieldRecords }

\* documents that are no mapping, or an empty one
OtherDocuments ==
    {JEmptyObj, JList(<<>>), JList(<<GOne>>), JNull, JNum(<<53>>), JNum(<<48>>),
     JStr(V_x), JBool(TRUE)}

\* documents with a known envelope and a 'processors' list under another key
MixedDocuments ==
    { Mk(<< <<K_flowContents, GOne>>,
            <<K_data, Mk(<< <<K_processors, JList(<<item>>)>> >>)>> >>) :
        item \in {P2, JStr(V_x), JNum(<<53>>)} }

Documents ==
    EnvelopeDocuments \cup DeepDocuments \cup NullFieldDocuments \cup OtherDocuments
    \cup MixedDocuments

\* ------------------------------------------------------------------------
\* main(): load_json, parse_flow, the exports
\* ------------------------------------------------------------------------
Init ==
    /\ flow_data = JNull
    /\ processors = <<>>
    /\ pc = "start"
    /\ detected = ""
    /\ ret = NoRes
    /\ arg = NoArg
    /\ res = NoRes

\* load_json returns True: json.load produced a document
LoadJson ==
    /\ pc = "start"
    /\ \E document \in Documents : flow_data' = document
    /\ pc' = "loaded"
    /\ UNCHANGED <<processors, detected, ret, arg, res>>

\* LoadJsonFails with the document assigned before the exit
LoadJsonFails_KeepsDocument ==
    /\ pc = "start"
    /\ pc' = "exit1"
    /\ flow_data' \in Documents \ {JNull}
    /\ UNCHANGED <<processors, detected, ret, arg, res>>

\* load_json returns False (file not found, invalid JSON), main exits with 1
LoadJsonFails ==
    /\ pc = "start"
    /\ pc' = "exit1"
    /\ UNCHANGED <<flow_data, processors, detected, ret, arg, res>>

\* processors = parser.parse_flow(); an exception it raises ends main
ParseFlow ==
    /\ pc = "loaded"
    /\ IF ~Truthy(flow_data)
       THEN /\ ret' = Ok(<<>>)
            /\ pc' = "parsed"
            /\ UNCHANGED <<processors, detected>>
       ELSE \E result \in {parse_flow(flow_data)} :
               /\ ret' = result
               /\ detected' = IF PyIn(K_flowContents, flow_data).err # ""
                              THEN detected
                              ELSE DetectFormat(flow_data)
               /\ IF result.err # ""
                  THEN pc' = "crashed" /\ UNCHANGED processors
                  ELSE pc' = "parsed" /\ processors' = result.val
    /\ UNCHANGED <<flow_data, arg, res>>

\* lines 802-809: no record was found
ExitNoProcessors ==
    /\ pc = "parsed"
    /\ Len(ret.val) = 0
    /\ pc' = "exit1"
    /\ UNCHANGED <<flow_data, processors, detected, ret, arg, res>>

\* lines 811-877: the summaries and the three CSV exports
Export ==
    /\ pc = "parsed"
    /\ Len(ret.val) > 0
    /\ pc' = "done"
    /\ UNCHANGED <<flow_data, processors, detected, ret, arg, res>>

Next == LoadJson \/ LoadJsonFails \/ ParseFlow \/ ExitNoProcessors \/ Export

Spec == Init /\ [][Next]_vars

\* ------------------------------------------------------------------------
\* The functions applied one at a time to drawn arguments
\* ------------------------------------------------------------------------
UnitInit ==
    /\ flow_data = JNull
    /\ processors = <<>>
    /\ pc = "start"
    /\ detected = ""
    /\ ret = NoRes
    /\ arg \in UnitCalls
    /\ res = NoRes

CallGetProcessorState ==
    /\ arg.fn = "get_processor_state"
    /\ res = NoRes
    /\ res' = get_processor_state(arg.processor)
    /\ UNCHANGED <<flow_data, processors, pc, detected, ret, arg>>

CallParseProcessor ==
    /\ arg.fn = "parse_processor"
    /\ res = NoRes
    /\ res' = parse_processor(arg.processor, arg.group_name)
    /\ UNCHANGED <<flow_data, processors, pc, detected, ret, arg>>

CallCleanSensitiveProperty ==
    /\ arg.fn = "clean_sensitive_property"
    /\ res = NoRes
    /\ res' = Ok(clean_sensitive_property(arg.prop_name, arg.prop_value))
    /\ UNCHANGED <<flow_data, processors, pc, detected, ret, arg>>

UnitNext == CallGetProcessorState \/ CallParseProcessor \/ CallCleanSensitiveProperty

UnitSpec == UnitInit /\ [][UnitNext]_vars

\* ------------------------------------------------------------------------
\* clean_data and clean_property_value applied to drawn values
\* ------------------------------------------------------------------------
\* a letter, the space, tab, line feed, carriage return, a control character
\* that is no whitespace, and the double quote
Alphabet == {97, 32, 9, 10, 13, 1, 34}

\* the greatest length of a drawn string
MaxLen == 4

Strings == UNION { [1..n -> Alphabet] : n \in 0..MaxLen }

CleanValues ==
    { JStr(s) : s \in Strings }
    \cup {JNull, JNum(<<53>>), JBool(TRUE), JList(<<>>), JList(<<JStr(V_x), JStr(V_x)>>)}

MaxLengths == {2, DefaultMaxLength}

CleanCalls ==
    [fn : {"clean_data"}, value : CleanValues]
    \cup [fn : {"clean_property_value"}, value : CleanValues, max_length : MaxLengths]

CleanInit ==
    /\ flow_data = JNull
    /\ processors = <<>>
    /\ pc = "start"
    /\ detected = ""
    /\ ret = NoRes
    /\ arg \in CleanCalls
    /\ res = NoRes

CallCleanData ==
    /\ arg.fn = "clean_data"
    /\ res = NoRes
    /\ res' = Ok(clean_data(arg.value))
    /\ UNCHANGED <<flow_data, processors, pc, detected, ret, arg>>

CallCleanPropertyValue ==
    /\ arg.fn = "clean_property_value"
    /\ res = NoRes
    /\ res' = Ok(clean_property_value(arg.value, arg.max_length))
    /\ UNCHANGED <<flow_data, processors, pc, detected, ret, arg>>

CleanNext == CallCleanData \/ CallCleanPropertyValue

CleanSpec == CleanInit /\ [][CleanNext]_vars

\* ------------------------------------------------------------------------
\* extract_processors_from_group and find_processors_recursively applied to
\* drawn subtrees
\* ------------------------------------------------------------------------
\* a record with a component wrapper
PWrapped ==
    Mk(<< <<K_id, JStr(V_p1)>>,
          <<K_component, Mk(<< <<K_id, JStr(V_ci)>>, <<K_name, JStr(V_B)>>,
                               <<K_config, Mk(<< <<K_schedulingPeriod, JStr(V_1min)>> >>)>> >>)>> >>)

\* a record that has a 'processors' list of its own
PNested == Mk(<< <<K_id, JStr(V_p1)>>, <<K_processors, JList(<<P2>>)>> >>)

GLeaf == Mk(<< <<K_name, JStr(V_G)>>, <<K_processors, JList(<<P2>>)>> >>)

\* a group with two child groups
SiblingGroups ==
    { Mk(<< <<K_processors, JList(<<P1>>)>>, <<K_processGroups, JList(<<first, second>>)>> >>) :
        first \in LeafGroups, second \in LeafGroups }

\* groups two levels deep whose names are absent, null, 'Root' or padded
NamedGroups ==
    { Mk(<< <<K_processGroups,
              JList(<<Mk(<< <<K_name, outer>>, <<K_processors, JList(<<P1>>)>>,
                            <<K_processGroups,
                              JList(<<Mk(<< <<K_name, inner>>,
                                            <<K_processors, JList(<<P2, PWrapped>>)>> >>)>>)>> >>)>>)>> >>) :
        outer \in {Absent, JNull, JStr(V_G), JStr(S_Root), JStr(V_paddedRun)},
        inner \in {Absent, JNull, JStr(V_H), JStr(S_Root), JStr(V_paddedRun)} }

\* groups whose 'processors' or 'processGroups' is no list, or a list with an
\* item that is no mapping
MalformedGroups ==
    { Mk(<< <<K_processors, procs>>, <<K_processGroups, groups>> >>) :
        procs \in {JList(<<P1>>), JNull, JNum(<<53>>), JStr(V_x), JStr(<<>>), JEmptyObj, GOne,
                   JList(<<JStr(V_x), P1>>), JList(<<P1, JNull>>)},
        groups \in {JList(<<GLeaf>>), JNull, JNum(<<53>>), JStr(V_x), JEmptyObj, GOne,
                    JList(<<JStr(V_x), GLeaf>>), JList(<<GLeaf, JNum(<<53>>)>>)} }

TraverseGroups == Groups(MaxDepth) \cup SiblingGroups \cup NamedGroups \cup MalformedGroups

\* documents with record lists beside and below a 'processors' key, under
\* other keys and inside lists
SearchData ==
    TraverseGroups \cup
    { Mk(<< <<K_processors, procs>>, <<K_data, under>>, <<V_x, JList(<<item, P2>>)>> >>) :
        procs \in {Absent, JList(<<P1>>), GOne, JList(<<PNested>>)},
        under \in {Absent, GOne, GNested, JStr(V_x)},
        item \in {GOne, JNum(<<53>>), JList(<<GOne>>)} }

TraverseCalls ==
    [fn : {"extract_processors_from_group"}, process_group : TraverseGroups, group_name : {JStr(S_Root)}]
    \cup [fn : {"find_processors_recursively"}, data : SearchData, path : {S_root}]

TraverseInit ==
    /\ flow_data = JNull
    /\ processors = <<>>
    /\ pc = "start"
    /\ detected = ""
    /\ ret = NoRes
    /\ arg \in TraverseCalls
    /\ res = NoRes

CallExtractProcessorsFromGroup ==
    /\ arg.fn = "extract_processors_from_group"
    /\ res = NoRes
    /\ res' = extract_processors_from_group(arg.process_group, arg.group_name)
    /\ UNCHANGED <<flow_data, processors, pc, detected, ret, arg>>

CallFindProcessorsRecursively ==
    /\ arg.fn = "find_processors_recursively"
    /\ res = NoRes
    /\ res' = find_processors_recursively(arg.data, arg.path)
    /\ UNCHANGED <<flow_data, processors, pc, detected, ret, arg>>

TraverseNext == CallExtractProcessorsFromGroup \/ CallFindProcessorsRecursively

TraverseSpec == TraverseInit /\ [][TraverseNext]_vars

\* ------------------------------------------------------------------------
\* nifi_diag.py: NiFiDiagnosticAnalyzer.parse_diagnostic_file
\* ------------------------------------------------------------------------
\* lines 33-55: for each pattern r"=+ <pattern> =+" the section name
section_patterns ==
    << [pattern |-> <<83, 121, 115, 116, 101, 109, 32, 68, 105, 97, 103, 110, 111, 115, 116, 105, 99, 115>>, name |-> "system_diagnostics"],  \* System Diagnostics
       [pattern |-> <<78, 105, 70, 105, 32, 80, 114, 111, 112, 101, 114, 116, 105, 101, 115>>, name |-> "nifi_properties"],  \* NiFi Properties
       [pattern |-> <<66, 111, 111, 116, 115, 116, 114, 97, 112, 32, 80, 114, 111, 112, 101, 114, 116, 105, 101, 115>>, name |-> "bootstrap_properties"],  \* Bootstrap Properties
       [pattern |-> <<74, 86, 77, 32, 73, 110, 102, 111, 114, 109, 97, 116, 105, 111, 110>>, name |-> "jvm_information"],  \* JVM Information
       [pattern |-> <<77, 101, 109, 111, 114, 121, 32, 85, 115, 97, 103, 101>>, name |-> "memory_usage"],  \* Memory Usage
       [pattern |-> <<71, 97, 114, 98, 97, 103, 101, 32, 67, 111, 108, 108, 101, 99, 116, 105, 111, 110>>, name |-> "garbage_collection"],  \* Garbage Collection
       [pattern |-> <<84, 104, 114, 101, 97, 100, 32, 73, 110, 102, 111, 114, 109, 97, 116, 105, 111, 110>>, name |-> "thread_information"],  \* Thread Information
       [pattern |-> <<80, 114, 111, 99, 101, 115, 115, 32, 71, 114, 111, 117, 112, 115>>, name |-> "process_groups"],  \* Process Groups
       [pattern |-> <<80, 114, 111, 99, 101, 115, 115, 111, 114, 115>>, name |-> "processors"],  \* Processors
       [pattern |-> <<67, 111, 110, 116, 114, 111, 108, 108, 101, 114, 32, 83, 101, 114, 118, 105, 99, 101, 115>>, name |-> "controller_services"],  \* Controller Services
       [pattern |-> <<82, 101, 112, 111, 114, 116, 105, 110, 103, 32, 84, 97, 115, 107, 115>>, name |-> "reporting_tasks"],  \* Reporting Tasks
       [pattern |-> <<67, 111, 110, 110, 101, 99, 116, 105, 111, 110, 115>>, name |-> "connections"],  \* Connections
       [pattern |-> <<80, 114, 111, 118, 101, 110, 97, 110, 99, 101>>, name |-> "provenance"],  \* Provenance
       [pattern |-> <<70, 108, 111, 119, 70, 105, 108, 101, 32, 82, 101, 112, 111, 115, 105, 116, 111, 114, 121>>, name |-> "flowfile_repository"],  \* FlowFile Repository
       [pattern |-> <<67, 111, 110, 116, 101, 110, 116, 32, 82, 101, 112, 111, 115, 105, 116, 111, 114, 121>>, name |-> "content_repository"],  \* Content Repository
       [pattern |-> <<68, 105, 115, 107, 32, 85, 115, 97, 103, 101>>, name |-> "disk_usage"],  \* Disk Usage
       [pattern |-> <<78, 101, 116, 119, 111, 114, 107, 32, 73, 110, 102, 111, 114, 109, 97, 116, 105, 111, 110>>, name |-> "network_information"],  \* Network Information
       [pattern |-> <<79, 112, 101, 114, 97, 116, 105, 110, 103, 32, 83, 121, 115, 116, 101, 109>>, name |-> "operating_system"],  \* Operating System
       [pattern |-> <<69, 110, 118, 105, 114, 111, 110, 109, 101, 110, 116, 32, 86, 97, 114, 105, 97, 98, 108, 101, 115>>, name |-> "environment_variables"],  \* Environment Variables
       [pattern |-> <<67, 108, 117, 115, 116, 101, 114, 32, 73, 110, 102, 111, 114, 109, 97, 116, 105, 111, 110>>, name |-> "cluster_information"],  \* Cluster Information
       [pattern |-> <<82, 101, 103, 105, 115, 116, 114, 121, 32, 67, 108, 105, 101, 110, 116, 115>>, name |-> "registry_clients"] >>  \* Registry Clients

\* the last index of the run of '=' that starts at index i of s
RunEnd(s, i) ==
    CHOOSE j \in i..Len(s) : /\ \A k \in i..j : s[k] = 61
                             /\ (j = Len(s) \/ s[j + 1] # 61)

\* the last index of the match of r"=+ <pattern> =+" (re.IGNORECASE) that
\* starts at index i of s, 0 when there is none: both =+ are greedy, so the
\* first takes the run of '=' up to the space and the second the whole run
MatchEnd(s, i, pattern) ==
    IF i > Len(s) \/ s[i] # 61 THEN 0
    ELSE Then(RunEnd(s, i), LAMBDA j :
         Then(j + Len(pattern) + 3, LAMBDA e :
              IF /\ e <= Len(s)
                 /\ s[j + 1] = 32
                 /\ s[e - 1] = 32
                 /\ s[e] = 61
                 /\ Lower(SubSeq(s, j + 2, e - 2)) = Lower(pattern)
              THEN RunEnd(s, e) ELSE 0))

RECURSIVE finditer(_, _, _)
\* line 60: re.finditer from index from on: the leftmost match, then the
\* matches after its end; start is the 0-based offset match.start()
finditer(s, entry, from) ==
    Then({i \in from..Len(s) : MatchEnd(s, i, entry.pattern) > 0}, LAMBDA starts :
        IF starts = {} THEN <<>>
        ELSE Then(CHOOSE i \in starts : \A k \in starts : i <= k, LAMBDA i :
             Then(MatchEnd(s, i, entry.pattern), LAMBDA end :
                  <<[start |-> i - 1, name |-> entry.name, header |-> SubSeq(s, i, end)]>>
                  \o finditer(s, entry, end + 1))))

RECURSIVE AllMatches(_, _)
\* lines 58-62: the matches of the patterns from the i-th on, pattern by pattern
AllMatches(s, i) ==
    IF i > Len(section_patterns) THEN <<>>
    ELSE finditer(s, section_patterns[i], 1) \o AllMatches(s, i + 1)

\* line 65: list.sort by start, stable
SortByStart(starts) ==
    LET rank(i) == Cardinality({j \in 1..Len(starts) :
                       \/ starts[j].start < starts[i].start
                       \/ starts[j].start = starts[i].start /\ j < i})
    IN [r \in 1..Len(starts) |-> starts[CHOOSE i \in 1..Len(starts) : rank(i) = r - 1]]

\* lines 67-79: the section of the i-th start
SectionAt(raw_content, section_starts, i) ==
    [header |-> section_starts[i].header,
     content |-> Strip(SubSeq(raw_content, section_starts[i].start + 1,
                              IF i < Len(section_starts) THEN section_starts[i + 1].start
                                                         ELSE Len(raw_content))),
     start_pos |-> section_starts[i].start]

RECURSIVE BuildSections_FirstWins(_, _, _, _)
\* BuildSections keeping the section a name already has
BuildSections_FirstWins(raw_content, section_starts, i, sections) ==
    IF i > Len(section_starts) THEN sections
    ELSE BuildSections_FirstWins(raw_content, section_starts, i + 1,
            IF \E k \in 1..Len(sections) : sections[k][1] = section_starts[i].name
            THEN sections
            ELSE Append(sections, <<section_starts[i].name,
                                    SectionAt(raw_content, section_starts, i)>>))

RECURSIVE BuildSections(_, _, _, _)
\* lines 68-79: self.sections[section_name] = {...} for the starts from the
\* i-th on, in order
BuildSections(raw_content, section_starts, i, sections) ==
    IF i > Len(section_starts) THEN sections
    ELSE BuildSections(raw_content, section_starts, i + 1,
                       DictSet(sections, section_starts[i].name,
                               SectionAt(raw_content, section_starts, i)))

\* lines 57-65: the sorted section starts of a text
section_starts_of(raw_content) == SortByStart(AllMatches(raw_content, 1))

\* lines 32-79: self.sections after the file was read, a dict held as the
\* sequence of its <<name, section>> items in insertion order
parse_diagnostic_file(raw_content) ==
    Then(section_starts_of(raw_content), LAMBDA section_starts :
         BuildSections(raw_content, section_starts, 1, <<>>))

\* pieces of diagnostic text
T_Processors == <<61, 61, 32, 80, 114, 111, 99, 101, 115, 115, 111, 114, 115, 32, 61, 61>>  \* '== Processors =='
T_processors == <<61, 32, 112, 114, 111, 99, 101, 115, 115, 111, 114, 115, 32, 61>>  \* '= processors ='
T_Connections == <<61, 61, 32, 67, 111, 110, 110, 101, 99, 116, 105, 111, 110, 115, 32, 61, 61>>  \* '== Connections =='
T_tailProcessors == <<32, 80, 114, 111, 99, 101, 115, 115, 111, 114, 115, 32, 61, 61>>  \* ' Processors =='
T_ab == <<97, 98>>  \* 'ab'
T_newline == <<10>>  \* '\n'

Pieces == {T_Processors, T_processors, T_Connections, T_tailProcessors, T_ab, T_newline}

\* the greatest number of pieces in a drawn text
MaxPieces == 4

RECURSIVE Texts(_)
\* the texts of at most n pieces
Texts(n) ==
    IF n = 0 THEN {<<>>}
    ELSE Texts(n - 1) \cup { t \o p : t \in Texts(n - 1), p \in Pieces }

DiagCalls == [fn : {"NiFiDiagnosticAnalyzer"}, text : Texts(MaxPieces)]

\* lines 17-21: the analyzer as __init__ leaves it before parse_diagnostic_file
DiagInit ==
    /\ flow_data = JNull
    /\ processors = <<>>
    /\ pc = "diag_start"
    /\ detected = ""
    /\ ret = NoRes
    /\ arg \in DiagCalls
    /\ res = Ok([raw_content |-> <<>>, sections |-> <<>>])

\* the file is missing (main, lines 315-317) or open/read raises (lines 25-30):
\* sys.exit(1)
ReadFails ==
    /\ pc = "diag_start"
    /\ pc' = "diag_exit1"
    /\ UNCHANGED <<flow_data, processors, detected, ret, arg, res>>

\* parse_diagnostic_file on a file that was read
ParseDiagnosticFile ==
    /\ pc = "diag_start"
    /\ pc' = "diag_menu"
    /\ res' = Ok([raw_content |-> arg.text, sections |-> parse_diagnostic_file(arg.text)])
    /\ UNCHANGED <<flow_data, processors, detected, ret, arg>>

DiagNext == ReadFails \/ ParseDiagnosticFile

DiagSpec == DiagInit /\ [][DiagNext]_vars

\* ------------------------------------------------------------------------
\* main() from a loaded document of records with properties to the exports
\* ------------------------------------------------------------------------
V_InvokeHTTP == <<111, 114, 103, 46, 97, 112, 97, 99, 104, 101, 46, 110, 105, 102, 105, 46, 112, 114, 111, 99, 101, 115, 115, 111, 114, 115, 46, 115, 116, 97, 110, 100, 97, 114, 100, 46, 73, 110, 118, 111, 107, 101, 72, 84, 84, 80>>  \* 'org.apache.nifi.processors.standard.InvokeHTTP'
V_UpdateAttribute == <<111, 114, 103, 46, 97, 112, 97, 99, 104, 101, 46, 110, 105, 102, 105, 46, 112, 114, 111, 99, 101, 115, 115, 111, 114, 115, 46, 97, 116, 116, 114, 105, 98, 117, 116, 101, 115, 46, 85, 112, 100, 97, 116, 101, 65, 116, 116, 114, 105, 98, 117, 116, 101>>  \* 'org.apache.nifi.processors.attributes.UpdateAttribute'
N_HTTPMethod == <<72, 84, 84, 80, 32, 77, 101, 116, 104, 111, 100>>  \* 'HTTP Method'
N_ScriptPath == <<83, 99, 114, 105, 112, 116, 32, 80, 97, 116, 104>>  \* 'Script Path'
N_spacedKey == <<107, 32, 107>>  \* 'k k'
\* a value of one character more than the matrix export shows
V_long == [i \in 1..(MatrixDisplayLength + 1) |-> 120]

\* one property, or two of different names
ExportProperties ==
    { Mk(<< <<name, JStr(value)>>, second >>) :
        name \in {N_RemoteURL, N_PASSWORD, N_Directory, N_ctrlKey, N_HTTPMethod},
        value \in {V_x, V_quoted, <<>>, V_long},
        second \in { <<N_SecretAccessKey, Absent>>,
                     <<N_SecretAccessKey, JStr(V_abc123)>>,
                     <<N_spacedKey, JStr(V_x)>>,
                     <<N_ScriptPath, JStr(V_quoted)>> } }

ExportRecords ==
    { Mk(<< <<K_identifier, JStr(V_p1)>>, <<K_name, JStr(V_A)>>, <<K_type, JStr(type)>>,
            <<K_state, JStr(V_Running)>>, <<K_properties, properties>> >>) :
        type \in {V_orgT, V_InvokeHTTP, V_UpdateAttribute},
        properties \in ExportProperties }

\* a record of a focus type with a denylist-named property of its own
PSecret ==
    Mk(<< <<K_id, JStr(V_p2)>>, <<K_type, JStr(V_InvokeHTTP)>>,
          <<K_properties, Mk(<< <<N_PASSWORD, JStr(V_myPassword)>> >>)>> >>)

\* documents with the records directly under 'processors'
ExportDocuments ==
    { Mk(<< <<K_processors, JList(<<first>> \o others)>> >>) :
        first \in ExportRecords, others \in {<<>>, <<P2>>, <<PSecret>>} }

\* the parser after load_json returned True on the document
ExportInit ==
    /\ flow_data \in ExportDocuments
    /\ processors = <<>>
    /\ pc = "loaded"
    /\ detected = ""
    /\ ret = NoRes
    /\ arg = [fn |-> "export"]
    /\ res = NoRes

\* line 848: parser.export_processor_summary_csv(...), the rows it writes
ExportProcessorSummaryCsv ==
    /\ pc = "parsed"
    /\ Len(ret.val) > 0
    /\ res' = Ok([summary |-> export_processor_summary_csv(processors),
                  focused |-> <<>>,
                  matrix |-> <<>>])
    /\ pc' = "summary"
    /\ UNCHANGED <<flow_data, processors, detected, ret, arg>>

\* line 851: parser.export_focused_processors_csv(...)
ExportFocusedProcessorsCsv ==
    /\ pc = "summary"
    /\ res' = Ok([res.val EXCEPT !.focused = export_focused_processors_csv(processors)])
    /\ pc' = "focused"
    /\ UNCHANGED <<flow_data, processors, detected, ret, arg>>

\* line 854: parser.export_properties_matrix_csv(...)
ExportPropertiesMatrixCsv ==
    /\ pc = "focused"
    /\ res' = Ok([res.val EXCEPT !.matrix = export_properties_matrix_csv(processors)])
    /\ pc' = "done"
    /\ UNCHANGED <<flow_data, processors, detected, ret, arg>>

ExportNext ==
    ParseFlow \/ ExportProcessorSummaryCsv \/ ExportFocusedProcessorsCsv
    \/ ExportPropertiesMatrixCsv

ExportSpec == ExportInit /\ [][ExportNext]_vars

\* ------------------------------------------------------------------------
\* A parser object on which parse_flow is called again and again
\* ------------------------------------------------------------------------
\* the greatest number of parse_flow calls on one parser
MaxCalls == 3

\* NiFiFlowParser(json_file) as __init__ leaves it (lines 17-21)
RepeatInit ==
    /\ flow_data = JNull
    /\ processors = <<>>
    /\ pc = "start"
    /\ detected = ""
    /\ ret = NoRes
    /\ arg = [fn |-> "parse_flow", calls |-> 0]
    /\ res = NoRes

\* CallParseFlow with the records appended to self.processors
CallParseFlow_Appends ==
    /\ pc \in {"loaded", "parsed", "crashed"}
    /\ arg.calls < MaxCalls
    /\ arg' = [arg EXCEPT !.calls = @ + 1]
    /\ IF ~Truthy(flow_data)
       THEN /\ ret' = Ok(<<>>)
            /\ pc' = "parsed"
            /\ UNCHANGED <<processors, detected>>
       ELSE \E result \in {parse_flow(flow_data)} :
               /\ ret' = result
               /\ detected' = IF PyIn(K_flowContents, flow_data).err # ""
                              THEN detected
                              ELSE DetectFormat(flow_data)
               /\ IF result.err # ""
                  THEN pc' = "crashed" /\ UNCHANGED processors
                  ELSE pc' = "parsed" /\ processors' = processors \o result.val
    /\ UNCHANGED <<flow_data, res>>

\* parser.parse_flow(), the first time or once more: line 325 returns [] for a
\* falsy flow_data, line 363 assigns the list built by this call to
\* self.processors; an exception leaves self.processors as it was
CallParseFlow ==
    /\ pc \in {"loaded", "parsed", "crashed"}
    /\ arg.calls < MaxCalls
    /\ arg' = [arg EXCEPT !.calls = @ + 1]
    /\ IF ~Truthy(flow_data)
       THEN /\ ret' = Ok(<<>>)
            /\ pc' = "parsed"
            /\ UNCHANGED <<processors, detected>>
       ELSE \E result \in {parse_flow(flow_data)} :
               /\ ret' = result
               /\ detected' = IF PyIn(K_flowContents, flow_data).err # ""
                              THEN detected
                              ELSE DetectFormat(flow_data)
               /\ IF result.err # ""
                  THEN pc' = "crashed" /\ UNCHANGED processors
                  ELSE pc' = "parsed" /\ processors' = result.val
    /\ UNCHANGED <<flow_data, res>>

RepeatNext == LoadJson \/ CallParseFlow

RepeatSpec == RepeatInit /\ [][RepeatNext]_vars

\* ------------------------------------------------------------------------
\* The two programs: the flow parser's main() and the diagnostic analyzer
\* ------------------------------------------------------------------------
ProgramsInit == Init \/ DiagInit

ProgramsNext == Next \/ DiagNext

ProgramsSpec == ProgramsInit /\ [][ProgramsNext]_vars

\* ------------------------------------------------------------------------
\* Properties
\* ------------------------------------------------------------------------
Returned(fn) == arg.fn = fn /\ res.err = ""

C1_Record ==
    Mk(<< <<K_identifier, JStr(V_p1)>>, <<K_name, JStr(V_A)>>,
          <<K_schedulingStrategy, JStr(S_DISABLED)>> >>)

C1_Called == arg.fn = "parse_processor" /\ arg.processor = C1_Record /\ res.err # "not called"

\* C1, as stated: parse_processor on {"identifier":"p1","name":"A",
\* "schedulingStrategy":"DISABLED"} yields a record with state DISABLED and id p1.
C1_StateDisabled ==
    C1_Called => res.err = "" /\ res.val.state = S_DISABLED /\ res.val.id = V_p1

\* C1, amended: parse_processor on that record yields state UNKNOWN (no rule of
\* get_processor_state reads the record's own schedulingStrategy), id p1 and
\* scheduling_strategy DISABLED.
C1_StateUnknown ==
    C1_Called => /\ res.err = ""
                 /\ res.val.state = S_UNKNOWN
                 /\ res.val.id = V_p1
                 /\ res.val.scheduling_strategy = S_DISABLED

C1_Witness == C1_Called /\ res.err = "" /\ res.val.id = V_p1

\* the drawn property names that contain a denylist word, in any case
C2_DenylistNames ==
    {N_SecretAccessKey, N_PASSWORD, N_api_token, N_KeyStorePath, N_CredentialFile}

C2_IsRaw(value, text) == value.t = "str" /\ value.s = text

\* C2, as stated: for a name matching the denylist, clean_sensitive_property
\* never returns the raw value, whatever the value; 'Secret Access Key' with
\* 'abc123' gives the redaction marker.
C2_NeverRaw ==
    Returned("clean_sensitive_property") /\ arg.prop_name \in C2_DenylistNames
    => /\ ~C2_IsRaw(arg.prop_value, res.val)
       /\ (arg.prop_name = N_SecretAccessKey /\ arg.prop_value = JStr(V_abc123)
           => res.val = S_SENSITIVE)

\* C2, amended: for a name matching the denylist the result is one of the two
\* markers, whatever the value holds ('***SENSITIVE***' for a truthy value,
\* 'Not Set' otherwise), and it differs from the raw value unless the value is
\* itself the string '***SENSITIVE***'; 'Secret Access Key' with 'abc123'
\* gives the redaction marker.
C2_MarkerOnly ==
    Returned("clean_sensitive_property") /\ arg.prop_name \in C2_DenylistNames
    => /\ res.val = IF arg.prop_value \in {JStr(<<>>), JNull, JNum(<<48>>), JBool(FALSE), JList(<<>>)}
                    THEN S_NotSet ELSE S_SENSITIVE
       /\ (arg.prop_value # JStr(S_SENSITIVE) => ~C2_IsRaw(arg.prop_value, res.val))
       /\ (arg.prop_name = N_SecretAccessKey /\ arg.prop_value = JStr(V_abc123)
           => res.val = S_SENSITIVE)

C2_Witness ==
    /\ Returned("clean_sensitive_property")
    /\ arg.prop_name = N_SecretAccessKey
    /\ arg.prop_value = JStr(V_abc123)
    /\ res.val = S_SENSITIVE

\* what each rule of the classifier yields on a record, Absent for nothing
C3_RuleValues(p) ==
    LET component == Get(p, K_component, Absent)
        config == Get(component, K_config, Absent)
        status == Get(p, K_status, Absent)
        snapshot == Get(status, K_aggregateSnapshot, Absent)
    IN << Get(p, K_state, Absent),
          IF HasKey(component, K_state) THEN Lookup(component, K_state)
          ELSE IF Get(config, K_schedulingStrategy, Absent) = JStr(S_DISABLED)
               THEN JStr(S_DISABLED) ELSE Absent,
          IF status.t \in {"obj", "absent"}
          THEN Get(status, K_runStatus, Get(snapshot, K_runStatus, Absent))
          ELSE JStr(PyStr(status)),
          Get(p, K_runStatus, Absent),
          Get(Get(p, K_config, Absent), K_schedulingStrategy, Absent) >>

C3_NonEmpty(v) == v.t = "str" /\ v.s # <<>>

\* C3: the result of get_processor_state comes from the first rule, in priority
\* order, that yields a non-empty value; a rule whose field is present but
\* empty does not stop the later rules.
C3_FirstNonEmptyWins ==
    Returned("get_processor_state")
    => LET values == C3_RuleValues(arg.processor)
       IN \A i \in 1..5 :
            C3_NonEmpty(values[i]) /\ (\A j \in 1..(i - 1) : ~C3_NonEmpty(values[j]))
            => res.val = NormalizeState(values[i])

C4_Table(u) ==
    CASE u \in {S_RUNNING, S_RUN, S_STARTED, S_START} -> S_RUNNING
      [] u \in {S_STOPPED, S_STOP} -> S_STOPPED
      [] u \in {S_DISABLED, S_INVALID} -> S_DISABLED
      [] u \in {S_VALIDATING, S_VALID} -> S_STOPPED
      [] OTHER -> u

\* C4: get_processor_state returns table[u] for u = upper(clean(s)) in the
\* table, u itself outside the table, and UNKNOWN when the selected value is
\* empty or no string.
C4_CanonicalOrUnknown ==
    Returned("get_processor_state")
    => LET selected == SelectState(arg.processor).val
       IN res.val = IF C3_NonEmpty(selected)
                    THEN C4_Table(Upper(clean_data(selected)))
                    ELSE S_UNKNOWN

C5_Conflict(p) ==
    /\ HasKey(p, K_state)
    /\ HasKey(p, K_status)
    /\ Lookup(p, K_status).t = "obj"
    /\ HasKey(Lookup(p, K_status), K_runStatus)
    /\ Lookup(Lookup(p, K_status), K_runStatus) # Lookup(p, K_state)

C5_Without(p, key) ==
    LET kept == SelectSeq([i \in 1..Len(p.ks) |-> i], LAMBDA i : p.ks[i] # key)
    IN JObj([j \in 1..Len(kept) |-> p.ks[kept[j]]], [j \in 1..Len(kept) |-> p.vs[kept[j]]])

\* C5: on a record with a direct state field and a conflicting status.runStatus
\* get_processor_state returns the canonical form of the direct state; the
\* status object has no influence on the result.
C5_DirectStateWins ==
    arg.fn = "get_processor_state" /\ res.err # "not called" /\ C5_Conflict(arg.processor)
    => /\ res.err = ""
       /\ res.val = NormalizeState(Lookup(arg.processor, K_state))
       /\ res = get_processor_state(C5_Without(arg.processor, K_status))

C5_Witness ==
    /\ Returned("get_processor_state")
    /\ C5_Conflict(arg.processor)
    /\ Lookup(arg.processor, K_state) = JStr(V_stopped)
    /\ Lookup(Lookup(arg.processor, K_status), K_runStatus) = JStr(V_Running)
    /\ res.val = S_STOPPED

\* C6: on every syntactically valid document parse_flow completes without
\* raising: an absent key under a matched envelope or an absent or null nested
\* field degrades to a default.
C6_NeverRaises == pc \in {"parsed", "crashed"} => ret.err = ""

EnvelopePriority ==
    <<K_flowContents, K_processGroupFlow, K_versionedFlowSnapshot, K_flow, K_processors>>

EnvelopeMessage ==
    <<"NiFi Template export format", "Process Group export format",
      "Registry versioned flow format", "Flow export format",
      "Direct processor list format">>

C7_Parsed == pc \in {"parsed", "crashed"} /\ flow_data.t = "obj" /\ Truthy(flow_data)

C7_HasEnvelope(document) == \E i \in 1..5 : HasKey(document, EnvelopePriority[i])

C7_Highest(document) ==
    CHOOSE i \in 1..5 : /\ HasKey(document, EnvelopePriority[i])
                        /\ \A j \in 1..(i - 1) : ~HasKey(document, EnvelopePriority[j])

\* the structured traversal of the i-th envelope of a document
C7_Traversal(document, i) ==
    LET value == Lookup(document, EnvelopePriority[i])
    IN CASE i \in {1, 4} -> extract_processors_from_group(value, JStr(S_Root))
         [] i = 2 -> Try(PyIndex(value, K_flow), LAMBDA group :
                         extract_processors_from_group(group, JStr(S_Root)))
         [] i = 3 -> Try(PyIndex(value, K_flowContents), LAMBDA group :
                         extract_processors_from_group(group, JStr(S_Root)))
         [] OTHER -> Try(PyIter(value), LAMBDA items : ParseEach(items, JStr(S_Root)))

\* C7: parse_flow picks the envelope by the priority flowContents >
\* processGroupFlow > versionedFlowSnapshot > flow > processors: the branch
\* taken is that of the highest-priority key present, the records are those of
\* the structured traversal of that envelope alone whenever it finds any, and a
\* document with flowContents is extracted through flowContents.
C7_EnvelopePriority ==
    C7_Parsed /\ C7_HasEnvelope(flow_data)
    => LET highest == C7_Highest(flow_data)
           found == C7_Traversal(flow_data, highest)
       IN /\ detected = EnvelopeMessage[highest]
          /\ (HasKey(flow_data, K_flowContents) => detected = "NiFi Template export format")
          /\ (found.err # "" => ret.err = found.err)
          /\ (found.err = "" /\ Len(found.val) > 0 => ret = found)

C7_Witness ==
    /\ pc = "parsed"
    /\ HasKey(flow_data, K_flowContents)
    /\ HasKey(flow_data, K_processGroupFlow)
    /\ HasKey(flow_data, K_flow)
    /\ HasKey(flow_data, K_processors)
    /\ Len(Lookup(flow_data, K_processors).vs) > 0
    /\ detected = "NiFi Template export format"
    /\ Len(ret.val) > 0
    /\ ret = extract_processors_from_group(Lookup(flow_data, K_flowContents), JStr(S_Root))

\* the chosen envelope's structured traversal returned no record
C8_StructuredEmpty(document) ==
    /\ document.t = "obj"
    /\ C7_HasEnvelope(document)
    /\ C7_Traversal(document, C7_Highest(document)) = Ok(<<>>)

C8_NoEnvelope(document) == document.t # "obj" \/ ~C7_HasEnvelope(document)

C9_NonEmptyIdentity ==
    Returned("parse_processor")
    => res.val.id # <<>> /\ res.val.name # <<>> /\ res.val.type # <<>>

RECURSIVE C10_FirstNonNull(_, _, _)
\* the value at the first of the keys that is present with a non-null value
C10_FirstNonNull(p, keys, default) ==
    IF Len(keys) = 0 THEN default
    ELSE IF HasKey(p, Head(keys)) /\ Lookup(p, Head(keys)).t # "null"
         THEN Lookup(p, Head(keys))
         ELSE C10_FirstNonNull(p, Tail(keys), default)

\* C10: each normalized field equals the value at the first candidate key
\* present with a non-null value, and the default when there is none; a null
\* does not block the later candidates or the default.
C10_FirstNonNullWins ==
    Returned("parse_processor") /\ ~HasKey(arg.processor, K_component)
    => LET p == arg.processor
       IN /\ res.val.id = clean_data(C10_FirstNonNull(p, <<K_identifier, K_id>>, JStr(S_Unknown)))
          /\ res.val.type = clean_data(C10_FirstNonNull(p, <<K_type, K_class>>, JStr(S_UnknownType)))
          /\ res.val.scheduling_period =
                clean_data(C10_FirstNonNull(p, <<K_schedulingPeriod, K_runSchedule>>, JStr(S_Unknown)))
          /\ res.val.concurrent_tasks =
                C10_FirstNonNull(p, <<K_concurrentlySchedulableTaskCount, K_maxConcurrentTasks>>,
                                 JNum(<<49>>))

\* the record has one of the keys and the wrapper block has key
C11_Both(p, keys, block, key) ==
    (\E i \in 1..Len(keys) : HasKey(p, keys[i])) /\ block.t = "obj" /\ HasKey(block, key)

\* C11: when a record carries a component wrapper, every field present both in
\* the wrapper (id, name, type in component; concurrent tasks, scheduling
\* strategy and period, penalty and yield duration, bulletin level,
\* auto-terminated relationships in component.config) and in the record itself
\* has the wrapper's value in the normalized record.
C11_EnvelopeWins ==
    Returned("parse_processor") /\ HasKey(arg.processor, K_component)
    => LET p == arg.processor
           component == Lookup(p, K_component)
           config == Get(component, K_config, Absent)
           info == res.val
       IN /\ (C11_Both(p, <<K_identifier, K_id>>, component, K_id)
              => info.id = clean_data(Lookup(component, K_id)))
          /\ (C11_Both(p, <<K_name>>, component, K_name)
              => info.name = clean_data(Lookup(component, K_name)))
          /\ (C11_Both(p, <<K_type, K_class>>, component, K_type)
              => info.type = clean_data(Lookup(component, K_type)))
          /\ (C11_Both(p, <<K_concurrentlySchedulableTaskCount, K_maxConcurrentTasks>>,
                       config, K_concurrentlySchedulableTaskCount)
              => info.concurrent_tasks = Lookup(config, K_concurrentlySchedulableTaskCount))
          /\ (C11_Both(p, <<K_schedulingStrategy>>, config, K_schedulingStrategy)
              => info.scheduling_strategy = clean_data(Lookup(config, K_schedulingStrategy)))
          /\ (C11_Both(p, <<K_schedulingPeriod, K_runSchedule>>, config, K_schedulingPeriod)
              => info.scheduling_period = clean_data(Lookup(config, K_schedulingPeriod)))
          /\ (C11_Both(p, <<K_penaltyDuration>>, config, K_penaltyDuration)
              => info.penalty_duration = clean_data(Lookup(config, K_penaltyDuration)))
          /\ (C11_Both(p, <<K_yieldDuration>>, config, K_yieldDuration)
              => info.yield_duration = clean_data(Lookup(config, K_yieldDuration)))
          /\ (C11_Both(p, <<K_bulletinLevel>>, config, K_bulletinLevel)
              => info.bulletin_level = clean_data(Lookup(config, K_bulletinLevel)))
          /\ (C11_Both(p, <<K_autoTerminatedRelationships>>, config, K_autoTerminatedRelationships)
              => info.auto_terminated_relationships =
                    CleanAll(Lookup(config, K_autoTerminatedRelationships).vs))

\* no character of s is a control character (ASCII 0-31, 127)
C12_NoControl(s) == \A i \in 1..Len(s) : s[i] \notin (0..31) \cup {127}

\* every maximal run of double quotes in s has even length
C12_QuotesDoubled(s) ==
    \A i \in 1..Len(s) :
        s[i] = 34 /\ (i = 1 \/ s[i - 1] # 34)
        => LET last == CHOOSE j \in i..Len(s) :
                          /\ \A k \in i..j : s[k] = 34
                          /\ (j = Len(s) \/ s[j + 1] # 34)
           IN (last - i + 1) % 2 = 0

C12_Safe(s) == C12_NoControl(s) /\ C12_QuotesDoubled(s)

\* C12: in every record produced by parse_processor, every key and every value
\* of the properties mapping holds no control character and no double quote
\* that is not doubled, whichever of the three places the property came from.
C12_PropertiesSafe ==
    Returned("parse_processor")
    => \A i \in 1..Len(res.val.properties) :
          C12_Safe(res.val.properties[i][1]) /\ C12_Safe(res.val.properties[i][2])

\* C13: clean_data is idempotent: for every string x,
\* clean_data(clean_data(x)) = clean_data(x).
C13_Idempotent ==
    Returned("clean_data") /\ arg.value.t = "str"
    => clean_data(JStr(res.val)) = res.val

C13_Witness ==
    /\ Returned("clean_data")
    /\ arg.value.t = "str"
    /\ Len(arg.value.s) = 4
    /\ res.val # arg.value.s
    /\ Len(res.val) = 3
    /\ res.val[2] = 32

\* whitespace as the claim lists it: space, tab, newline, carriage return (and
\* vertical tab, form feed)
C14_Whitespace == {9, 10, 11, 12, 13, 32}

\* the non-whitespace stretches of s, one space between two of them
C14_SingleSpaced(s) ==
    LET kept == SelectSeq([i \in 1..Len(s) |-> i],
                          LAMBDA i : \/ s[i] \notin C14_Whitespace
                                     \/ /\ i < Len(s)
                                        /\ s[i + 1] \notin C14_Whitespace
                                        /\ \E j \in 1..(i - 1) : s[j] \notin C14_Whitespace)
    IN [j \in 1..Len(kept) |-> IF s[kept[j]] \in C14_Whitespace THEN 32 ELSE s[kept[j]]]

\* C14: clean_data returns a string ('' for None) with no control character
\* and no leading or trailing whitespace, in which every maximal run of
\* whitespace of the input (tabs, newlines, carriage returns included) that
\* lies between two non-whitespace characters is exactly one space.
C14_WhitespaceCollapsed ==
    Returned("clean_data")
    => /\ C12_NoControl(res.val)
       /\ (res.val # <<>> => res.val[1] # 32 /\ res.val[Len(res.val)] # 32)
       /\ (arg.value = JNull => res.val = <<>>)
       /\ (arg.value.t = "str" /\ (\A i \in 1..Len(arg.value.s) :
                                      arg.value.s[i] \in C14_Whitespace \/ arg.value.s[i] >= 32)
           => res.val = C14_SingleSpaced(arg.value.s))

RECURSIVE C15_Doubled(_)
\* s with every double quote written twice
C15_Doubled(s) ==
    IF s = <<>> THEN <<>>
    ELSE (IF Head(s) = 34 THEN <<34, 34>> ELSE <<Head(s)>>) \o C15_Doubled(Tail(s))

\* C15: clean_property_value(v, max_length) is: c = clean_data(v); if
\* len(c) > max_length, c becomes its first max_length characters followed by
\* '...[TRUNCATED]', else c is kept whole (so at exactly max_length
\* characters); then every double quote is doubled.  The test and the cut are
\* on the unescaped text.
C15_TruncateThenEscape ==
    Returned("clean_property_value")
    => LET c == clean_data(arg.value)
       IN res.val = C15_Doubled(IF Len(c) > arg.max_length
                                THEN SubSeq(c, 1, arg.max_length) \o S_TRUNCATED
                                ELSE c)

C15_Witness ==
    /\ Returned("clean_property_value")
    /\ arg.max_length = 2
    /\ arg.value = JStr(<<97, 34, 34>>)
    /\ res.val = <<97, 34, 34>> \o S_TRUNCATED

\* the text of raw from the 0-based offset start up to the next header match
\* after it, or to the end
C16_Following(raw, starts, start) ==
    LET later == {starts[j].start : j \in 1..Len(starts)} \ (0..start)
    IN SubSeq(raw, start + 1,
              IF later = {} THEN Len(raw) ELSE CHOOSE x \in later : \A y \in later : x <= y)

C16_Repeated(starts) ==
    \E i, j \in 1..Len(starts) : i # j /\ starts[i].name = starts[j].name

\* C16: when a section name is matched by more than one header, the section
\* map holds exactly one entry for that name, and its header, content and
\* start offset are those of the occurrence with the greatest start offset.
C16_LastMatchWins ==
    pc = "diag_menu"
    => LET raw == res.val.raw_content
           starts == section_starts_of(raw)
           sections == res.val.sections
       IN \A i \in 1..Len(starts) :
            (\A j \in 1..Len(starts) :
                starts[j].name = starts[i].name => starts[j].start <= starts[i].start)
            => /\ Cardinality({k \in 1..Len(sections) : sections[k][1] = starts[i].name}) = 1
               /\ \A k \in 1..Len(sections) :
                     sections[k][1] = starts[i].name
                     => /\ sections[k][2].start_pos = starts[i].start
                        /\ sections[k][2].header = starts[i].header
                        /\ sections[k][2].content =
                              Strip(C16_Following(raw, starts, starts[i].start))

C16_Witness ==
    /\ pc = "diag_menu"
    /\ arg.text = T_Processors \o T_ab \o T_newline \o T_processors
    /\ Len(res.val.sections) = 1
    /\ res.val.sections[1][1] = "processors"
    /\ res.val.sections[1][2].start_pos = 19
    /\ res.val.sections[1][2].content = T_processors

\* C17: after parse_diagnostic_file on any text, repeated section names
\* included, the sections in the map's iteration order have strictly ascending
\* start offsets and their content spans do not overlap and are contiguous
\* (nothing but stripped whitespace between one and the next).
C17_AscendingContiguous ==
    pc = "diag_menu"
    => LET raw == res.val.raw_content
           sections == res.val.sections
       IN \A k \in 1..(Len(sections) - 1) :
            LET this == sections[k][2]
                next == sections[k + 1][2]
            IN /\ this.start_pos < next.start_pos
               /\ this.start_pos + Len(this.content) <= next.start_pos
               /\ \A x \in (this.start_pos + Len(this.content) + 1)..next.start_pos :
                     raw[x] \in WhitespaceChars

RECURSIVE C18_ContentLength(_)
\* the sum of the lengths of the contents of the sections
C18_ContentLength(sections) ==
    IF sections = <<>> THEN 0
    ELSE Len(Head(sections)[2].content) + C18_ContentLength(Tail(sections))

\* C18: for every diagnostic text, the length of the preamble before the first
\* matched header plus the sum of the lengths of the contents of all sections
\* of the map equals the length of the text.
C18_LengthPreserved ==
    pc = "diag_menu"
    => LET raw == res.val.raw_content
           starts == section_starts_of(raw)
           preamble == IF starts = <<>> THEN Len(raw) ELSE starts[1].start
       IN preamble + C18_ContentLength(res.val.sections) = Len(raw)

\* C19: if load_json fails it leaves flow_data and processors unchanged and
\* main exits with a non-zero status before parse_flow or any export runs;
\* the diagnostic analyzer exits with status 1 on a read failure before any
\* section is built.  Every step out of the start is a successful load or that
\* exit, parse_flow runs only on a loaded document, the exports only after it,
\* and nothing happens after an exit.
C19_FailedLoadExits ==
    [][/\ (pc = "start"
           => \/ pc' = "loaded"
              \/ /\ pc' = "exit1"
                 /\ flow_data' = flow_data
                 /\ processors' = processors
                 /\ processors' = <<>>
                 /\ ret' = NoRes)
       /\ (ret' # ret => pc = "loaded")
       /\ (pc' = "done" => pc = "parsed")
       /\ (pc = "diag_start"
           => \/ pc' = "diag_menu"
              \/ /\ pc' = "diag_exit1"
                 /\ res' = res
                 /\ res'.val.sections = <<>>)
       /\ (pc \in {"exit1", "diag_exit1"} => UNCHANGED vars)]_vars

C19_Witness ==
    /\ pc = "exit1"
    /\ ret = NoRes
    /\ flow_data = JNull
    /\ processors = <<>>

\* C20: on every document on which the structured traversal from a known
\* envelope (extract_processors_from_group on the envelope's subtree) finds
\* n >= 1 records, find_processors_recursively on the same document finds at
\* least n records, among them every record of the structured traversal (same
\* id, name and type).
C20_UnguidedFindsAll ==
    pc \in {"loaded", "parsed", "crashed"} /\ flow_data.t = "obj"
    => \A i \in 1..4 :
          HasKey(flow_data, EnvelopePriority[i])
          => LET found == C7_Traversal(flow_data, i)
                 unguided == find_processors_recursively(flow_data, S_root)
             IN found.err = "" /\ Len(found.val) >= 1
                => /\ unguided.err = ""
                   /\ Len(unguided.val) >= Len(found.val)
                   /\ \A k \in 1..Len(found.val) : \E m \in 1..Len(unguided.val) :
                         /\ unguided.val[m].id = found.val[k].id
                         /\ unguided.val[m].name = found.val[k].name
                         /\ unguided.val[m].type = found.val[k].type

Called(fn) == arg.fn = fn /\ res # NoRes

\* the items of a list that are mappings
C21_Mappings(items) == SelectSeq(items, LAMBDA item : item.t = "obj")

RECURSIVE C21_WellTyped(_)
\* the node without its anomalous branches: without a 'processors' or
\* 'processGroups' value that is no list, without the items of a 'processors'
\* list that are no mappings, and with an empty group for each item of a
\* 'processGroups' list that is no mapping
C21_WellTyped(node) ==
    CASE node.t = "obj" ->
            LET kept == SelectSeq([i \in 1..Len(node.ks) |-> i],
                            LAMBDA i : node.ks[i] \in {K_processors, K_processGroups}
                                       => node.vs[i].t = "list")
            IN JObj([j \in 1..Len(kept) |-> node.ks[kept[j]]],
                    [j \in 1..Len(kept) |->
                        LET key == node.ks[kept[j]]
                            value == node.vs[kept[j]]
                        IN CASE key = K_processors -> JList(C21_Mappings(value.vs))
                             [] key = K_processGroups ->
                                    JList([k \in 1..Len(value.vs) |->
                                              IF value.vs[k].t = "obj"
                                              THEN C21_WellTyped(value.vs[k])
                                              ELSE JEmptyObj])
                             [] OTHER -> C21_WellTyped(value)])
      [] node.t = "list" -> JList([i \in 1..Len(node.vs) |-> C21_WellTyped(node.vs[i])])
      [] OTHER -> node

\* C21: a 'processors' or 'processGroups' value that is null, a scalar or a
\* mapping, and an item of such a list that is no mapping, is a branch without
\* records: extract_processors_from_group and find_processors_recursively do
\* not raise and return the records of the other branches, that is the records
\* of the subtree without the anomalous branches.
C21_AnomaliesAbsorbed ==
    /\ Called("extract_processors_from_group")
       => /\ res.err = ""
          /\ res = extract_processors_from_group(C21_WellTyped(arg.process_group), arg.group_name)
    /\ Called("find_processors_recursively")
       => /\ res.err = ""
          /\ res = find_processors_recursively(C21_WellTyped(arg.data), arg.path)

\* the items of the list under key, none when there is no list
C22_Items(group, key) ==
    IF HasKey(group, key) /\ Lookup(group, key).t = "list" THEN Lookup(group, key).vs ELSE <<>>

\* the name of a group, 'Unnamed Group' when it has none
C22_Name(group) ==
    IF HasKey(group, K_name) /\ Lookup(group, K_name).t # "null"
    THEN PyStr(Lookup(group, K_name))
    ELSE S_UnnamedGroup

RECURSIVE C22_Paths(_, _)
RECURSIVE C22_ChildPaths(_, _)

\* for the units below a group in depth-first order, the '/'-joined names of
\* the groups from the entry subtree (not included) down to the unit's group
C22_Paths(group, names) ==
    [i \in 1..Len(C22_Items(group, K_processors)) |->
        IF names = <<>> THEN S_Root ELSE Join(names, <<47>>)]
    \o C22_ChildPaths(C22_Items(group, K_processGroups), names)

C22_ChildPaths(children, names) ==
    IF Len(children) = 0 THEN <<>>
    ELSE C22_Paths(Head(children), Append(names, C22_Name(Head(children))))
         \o C22_ChildPaths(Tail(children), names)

\* C22: the group path of every record extract_processors_from_group returns
\* is the (sanitized) '/'-joined names of its ancestor groups below the entry
\* subtree, 'Unnamed Group' standing for a group without a name, and it is
\* 'Root' exactly for the units directly in the entry subtree; a component
\* wrapper does not change it.
C22_PathIsAncestorNames ==
    Returned("extract_processors_from_group")
    => LET paths == C22_Paths(arg.process_group, <<>>)
       IN /\ Len(res.val) = Len(paths)
          /\ \A i \in 1..Len(paths) :
                /\ res.val[i].group = clean_data(JStr(paths[i]))
                /\ res.val[i].group = S_Root
                   <=> i <= Len(C22_Items(arg.process_group, K_processors))

RECURSIVE C23_Units(_)
RECURSIVE C23_ChildUnits(_)

\* the items of the 'processors' lists below a group, depth first: those of
\* the group, then those below each child group in turn
C23_Units(group) ==
    C22_Items(group, K_processors) \o C23_ChildUnits(C22_Items(group, K_processGroups))

C23_ChildUnits(children) ==
    IF Len(children) = 0 THEN <<>>
    ELSE C23_Units(Head(children)) \o C23_ChildUnits(Tail(children))

C24_LastOfName(starts, i) ==
    \A j \in 1..Len(starts) : starts[j].name = starts[i].name => starts[j].start <= starts[i].start

\* C24: the content recorded for a header match is exactly the text from its
\* start offset up to, excluding, the start offset of the next match in offset
\* order, and up to the end of the text for the last match; no section starts
\* before the first match, and a text without a header match gives an empty
\* section map.
C24_ExactSpans ==
    pc = "diag_menu"
    => LET raw == res.val.raw_content
           starts == section_starts_of(raw)
           sections == res.val.sections
       IN /\ (starts = <<>> => sections = <<>>)
          /\ \A k \in 1..Len(sections) : sections[k][2].start_pos >= starts[1].start
          /\ \A i \in 1..Len(starts) :
                C24_LastOfName(starts, i)
                => \E k \in 1..Len(sections) :
                      /\ sections[k][1] = starts[i].name
                      /\ sections[k][2].content =
                            SubSeq(raw, starts[i].start + 1,
                                   IF i < Len(starts) THEN starts[i + 1].start ELSE Len(raw))

RECURSIVE C25_Units(_)
RECURSIVE C25_UnitsOfEach(_)

\* the items of the record lists of a document: at a mapping those of its
\* 'processors' list, then those found under every key but a consumed
\* 'processors'; at a list those found in every item
C25_Units(node) ==
    CASE node.t = "obj" ->
            C22_Items(node, K_processors)
            \o C25_UnitsOfEach(SelectSeq(
                   [i \in 1..Len(node.ks) |->
                       IF node.ks[i] = K_processors /\ node.vs[i].t = "list"
                       THEN JNull ELSE node.vs[i]],
                   LAMBDA value : value # JNull))
      [] node.t = "list" -> C25_UnitsOfEach(node.vs)
      [] OTHER -> <<>>

C25_UnitsOfEach(nodes) ==
    IF Len(nodes) = 0 THEN <<>>
    ELSE C25_Units(Head(nodes)) \o C25_UnitsOfEach(Tail(nodes))

\* C25: find_processors_recursively inspects every mapping at every depth for
\* a 'processors' list and descends into every key of every mapping and every
\* item of every list, but not into a consumed 'processors' value: it returns
\* one record for each item of each record list, none twice, the lists under
\* the sibling keys of a 'processors' key included.
C25_EveryListOnce ==
    Called("find_processors_recursively")
    => /\ res.err = ""
       /\ LET units == C25_Units(arg.data)
          IN /\ Len(res.val) = Len(units)
             /\ \A i \in 1..Len(units) :
                   Ok(res.val[i]) = parse_processor(units[i], JStr(res.val[i].group))
             /\ \A i, j \in 1..Len(units) : i # j => res.val[i].group # res.val[j].group
                                                    \/ units[i] # units[j]

\* the outcome of one parse_flow call on a loaded document
C26_SingleCall(document) ==
    IF Truthy(document) THEN parse_flow(document) ELSE Ok(<<>>)

\* C26: parse_flow rebuilds the records from the loaded document on every
\* call: whatever the number of calls on the same document, each call has the
\* outcome of a single call, a call after the first changes neither the value
\* returned nor self.processors, and self.processors is the sequence the call
\* returned.
C26_RebuiltEachCall ==
    [][arg'.calls > arg.calls
       => /\ ret' = C26_SingleCall(flow_data)
          /\ (ret'.err = "" => processors' = ret'.val)
          /\ (arg.calls > 0 => ret' = ret /\ processors' = processors)]_vars

\* the third call on a document with two records
C26_Witness ==
    /\ arg.fn = "parse_flow"
    /\ arg.calls = 3
    /\ pc = "parsed"
    /\ Len(ret.val) = 2
    /\ processors = ret.val
    /\ ret = parse_flow(flow_data)

\* the value of the column name of a row
C27_Column(row, name) == row[CHOOSE i \in 1..Len(row) : row[i][1] = name][2]

\* the values stored in a properties mapping under the key name
C27_Stored(properties, name) ==
    {properties[j][2] : j \in {j \in 1..Len(properties) : properties[j][1] = name}}

\* the position of the n-th record among the records of a focus type
C27_FocusIndex(n) == Cardinality({k \in 1..n : IsFocusProcessor(processors[k])})

\* C27: for every record and every property that is selected as a key
\* configuration and whose name does not match the denylist, the value
\* get_key_properties_for_processor returns, and the value written to the
\* Key_Config_<i>_Value column of the summary and the Value_<i> column of the
\* focused export, is the value stored for that property in the record's
\* properties: it is not truncated or quote-escaped a second time.
C27_KeyConfigIsStoredValue ==
    pc \in {"summary", "focused", "done"}
    => \A n \in 1..Len(processors) :
          LET proc == processors[n]
              key_props == get_key_properties_for_processor(LastDotPart(proc.type),
                                                            proc.properties)
          IN \A i \in 1..Len(key_props) :
                ~IsSensitiveName(key_props[i][1])
                => /\ key_props[i][2] \in C27_Stored(proc.properties, key_props[i][1])
                   /\ i <= 5
                      => C27_Column(res.val.summary[n],
                                    F_Key_Config_ \o Decimal(i) \o F__Value)
                            \in C27_Stored(proc.properties, key_props[i][1])
                   /\ (i <= 6 /\ pc # "summary" /\ IsFocusProcessor(proc))
                      => C27_Column(res.val.focused[C27_FocusIndex(n)],
                                    F_Value_ \o Decimal(i))
                            \in C27_Stored(proc.properties, key_props[i][1])

\* the records of the loaded document, in the order parse_flow reads them
C28_SourceRecords == Lookup(flow_data, K_processors).vs

\* the (name, value) pairs of the 'properties' mapping of a source record
C28_SourceProperties(processor) ==
    IF HasKey(processor, K_properties)
    THEN LET properties == Lookup(processor, K_properties)
         IN {<<properties.ks[i], properties.vs[i]>> : i \in 1..Len(properties.ks)}
    ELSE {}

\* C28: parse_processor redacts nothing. For every source property (k, v),
\* denylist-named or not, the record's properties hold
\* clean_property_value(v) under clean_data(k); and for a denylist-named k the
\* All_Properties_JSON column holds that pair as JSON text and the column
\* clean_data(k) of the properties matrix holds that value.
C28_NoRedactionBeforeProjection ==
    pc \in {"parsed", "summary", "focused", "done"}
    => \A n \in 1..Len(C28_SourceRecords) :
          \A property \in C28_SourceProperties(C28_SourceRecords[n]) :
             LET clean_key == clean_data(JStr(property[1]))
                 clean_value == clean_property_value(property[2], DefaultMaxLength)
             IN /\ C27_Stored(processors[n].properties, clean_key) = {clean_value}
                /\ (IsSensitiveName(property[1]) /\ pc # "parsed")
                   => Contains(JsonString(clean_key) \o <<58, 32>> \o JsonString(clean_value),
                               C27_Column(res.val.summary[n], F_All_Properties_JSON))
                /\ (IsSensitiveName(property[1]) /\ pc = "done")
                   => C27_Column(res.val.matrix[n], clean_key) = clean_value

\* C29: in the section map of every diagnostic text, the header recorded for a
\* section is a prefix of the section's content: each matched header lies
\* wholly inside the span of its own section, also when two header matches
\* share '=' characters.
C29_HeaderIsPrefix ==
    pc = "diag_menu"
    => \A k \in 1..Len(res.val.sections) :
          LET section == res.val.sections[k][2]
          IN /\ Len(section.header) <= Len(section.content)
             /\ SubSeq(section.content, 1, Len(section.header)) = section.header

====
